---- MODULE Spec2Model ----
(***************************************************************************)
(* GOGO Studio: the text-anchoring and highlighting core of the reading    *)
(* mode (highlighter, locator, xpath) and the restoration polling of       *)
(* GOGOMode, modelled over a small DOM.                                     *)
(*                                                                         *)
(* A DOM node is a record; a node is addressed by its path, the sequence   *)
(* of 1-based child indexes from the document element (html, path <<>>).   *)
(* Text is a sequence of one-character strings.                            *)
(***************************************************************************)
EXTENDS Integers, Sequences, FiniteSets, TLC

(* ------------------------------------------------------------------ *)
(* Bounds of the model                                                 *)
(* ------------------------------------------------------------------ *)

\* Number of annotations a run creates (ids 1..MaxAnn).
MaxAnn == 1

\* Annotations made at most.
MaxNotes == 2

\* Storage change events a hook has not handled yet, at most.
MaxInbox == 2

\* Number of sample pages the initial state chooses from (SamplePage(1..NPages)).
NPages == 2

(* ------------------------------------------------------------------ *)
(* DOM nodes                                                           *)
(* ------------------------------------------------------------------ *)

\* A Text node holding the characters s.
Txt(s) ==
  [kind |-> "text", tag |-> "#text", gid |-> 0, cls |-> "", data |-> s, ch |-> <<>>]

\* An element without a data-gogo-id attribute.
El(tag, ch) ==
  [kind |-> "elem", tag |-> tag, gid |-> 0, cls |-> "", data |-> <<>>, ch |-> ch]

\* <mark class="gogo-highlight-TYPE" data-gogo-id="ID">: cls holds TYPE, gid holds ID.
MarkEl(type, id, ch) ==
  [kind |-> "elem", tag |-> "mark", gid |-> id, cls |-> type, data |-> <<>>, ch |-> ch]

IsText(n) == n.kind = "text"

\* Concatenation of a sequence of sequences.
RECURSIVE Flatten(_)
Flatten(ss) == IF ss = <<>> THEN <<>> ELSE Head(ss) \o Flatten(Tail(ss))

\* The node at a path below root.
RECURSIVE NodeAt(_, _)
NodeAt(root, path) ==
  IF path = <<>> THEN root ELSE NodeAt(root.ch[Head(path)], Tail(path))

\* Node.textContent: the data of the Text descendants in document order.
RECURSIVE TextContent(_)
TextContent(n) ==
  IF IsText(n) THEN n.data
  ELSE Flatten([i \in 1..Len(n.ch) |-> TextContent(n.ch[i])])

\* Paths of all nodes of the subtree of n (n itself included), document order.
RECURSIVE NodePaths(_, _)
NodePaths(n, path) ==
  <<path>> \o Flatten([i \in 1..Len(n.ch) |-> NodePaths(n.ch[i], Append(path, i))])

\* Paths of the Text nodes of the subtree at path (that node included), document order.
TextPaths(root, path) ==
  LET all == NodePaths(NodeAt(root, path), path)
      T(p) == IsText(NodeAt(root, p))
  IN SelectSeq(all, T)

\* Paths of the elements of the subtree at path (that node included), document order.
ElemPaths(root, path) ==
  LET all == NodePaths(NodeAt(root, path), path)
      E(p) == ~IsText(NodeAt(root, p))
  IN SelectSeq(all, E)

SeqRange(s) == {s[i] : i \in 1..Len(s)}

BodyPath == <<2>>

\* document.body.textContent
BodyText(d) == TextContent(NodeAt(d, BodyPath))

\* document.querySelectorAll('[data-gogo-id="id"]'), as paths in document order.
MarkPaths(d, id) ==
  LET M(p) == NodeAt(d, p).gid = id IN SelectSeq(NodePaths(d, <<>>), M)

\* document.querySelectorAll('[data-gogo-id]')
AllMarkPaths(d) ==
  LET M(p) == NodeAt(d, p).gid # 0 IN SelectSeq(NodePaths(d, <<>>), M)

(* ------------------------------------------------------------------ *)
(* Strings (JavaScript semantics, offsets are 0-based)                  *)
(* ------------------------------------------------------------------ *)

Min(a, b) == IF a < b THEN a ELSE b
Max(a, b) == IF a > b THEN a ELSE b

\* String.prototype.substring(a, b): both ends clamped to [0, length], swapped if a > b.
Substring(s, a, b) ==
  LET ca == Max(0, Min(a, Len(s)))
      cb == Max(0, Min(b, Len(s)))
  IN SubSeq(s, Min(ca, cb) + 1, Max(ca, cb))

\* String.prototype.indexOf(needle): first 0-based position, -1 when absent.
IndexOf(hay, needle) ==
  LET hits == {i \in 0..(Len(hay) - Len(needle)) :
                 SubSeq(hay, i + 1, i + Len(needle)) = needle}
  IN IF hits = {} THEN -1 ELSE CHOOSE i \in hits : \A j \in hits : i <= j

\* String.prototype.includes(needle)
Includes(hay, needle) == IndexOf(hay, needle) # -1

(* ------------------------------------------------------------------ *)
(* Ranges (DOM standard)                                               *)
(* A boundary point is (node path, offset); a Range is                 *)
(* [sc, so, ec, eo]: start container/offset, end container/offset.     *)
(* ------------------------------------------------------------------ *)

\* Length of a node: characters of a Text node, children of an element.
NodeLength(n) == IF IsText(n) THEN Len(n.data) ELSE Len(n.ch)

\* The boundary point (path, off) as a sequence: it lies just before child
\* off+1 of the node, so the document order of boundary points is the
\* lexicographic order of these keys, a proper prefix coming first.
PtKey(path, off) == Append(path, off + 1)

\* Lexicographic a < b.
LexLess(a, b) ==
  \/ Len(a) < Len(b) /\ SubSeq(b, 1, Len(a)) = a
  \/ \E i \in 1..Min(Len(a), Len(b)) :
       /\ SubSeq(a, 1, i - 1) = SubSeq(b, 1, i - 1)
       /\ a[i] < b[i]

\* Boundary point (p1, o1) is before (p2, o2).
PtBefore(p1, o1, p2, o2) == LexLess(PtKey(p1, o1), PtKey(p2, o2))

IsPrefix(a, b) == Len(a) <= Len(b) /\ SubSeq(b, 1, Len(a)) = a

\* Range.collapsed
Collapsed(r) == r.sc = r.ec /\ r.so = r.eo

\* Range.commonAncestorContainer: the deepest node containing both containers.
CommonAncestor(r) ==
  LET n == CHOOSE k \in 0..Min(Len(r.sc), Len(r.ec)) :
             /\ SubSeq(r.sc, 1, k) = SubSeq(r.ec, 1, k)
             /\ \A j \in (k + 1)..Min(Len(r.sc), Len(r.ec)) :
                  SubSeq(r.sc, 1, j) # SubSeq(r.ec, 1, j)
  IN SubSeq(r.sc, 1, n)

\* The slice [a, b) of the Text node at path p that lies inside range r.
ClipStart(d, r, p) ==
  IF p = r.sc THEN r.so
  ELSE IF PtBefore(p, 0, r.sc, r.so) THEN Len(NodeAt(d, p).data) ELSE 0

ClipEnd(d, r, p) ==
  IF p = r.ec THEN r.eo
  ELSE IF PtBefore(r.ec, r.eo, p, Len(NodeAt(d, p).data)) THEN 0
       ELSE Len(NodeAt(d, p).data)

\* Range.toString(): the data of the Text nodes inside the range, document order.
RangeToString(d, r) ==
  LET tps == TextPaths(d, <<>>)
  IN Flatten([i \in 1..Len(tps) |->
       LET a == ClipStart(d, r, tps[i])
           b == ClipEnd(d, r, tps[i])
       IN IF a < b THEN SubSeq(NodeAt(d, tps[i]).data, a + 1, b) ELSE <<>>])

\* Range.intersectsNode(node) for a node with a parent: (parent, index) is before
\* the range's end and (parent, index + 1) is after its start.
IntersectsNode(r, p) ==
  LET parent == SubSeq(p, 1, Len(p) - 1)
      index == p[Len(p)] - 1
  IN /\ PtBefore(parent, index, r.ec, r.eo)
     /\ PtBefore(r.sc, r.so, parent, index + 1)

\* All valid boundary points inside the body.
BoundaryPoints(d) ==
  LET ps == SeqRange(NodePaths(NodeAt(d, BodyPath), BodyPath))
  IN UNION {{<<p, o>> : o \in 0..NodeLength(NodeAt(d, p))} : p \in ps}

\* All non-collapsed ranges inside the body (start strictly before end).
BodyRanges(d) ==
  {[sc |-> s[1], so |-> s[2], ec |-> e[1], eo |-> e[2]] :
     <<s, e>> \in {x \in BoundaryPoints(d) \X BoundaryPoints(d) :
                     PtBefore(x[1][1], x[1][2], x[2][1], x[2][2])}}

(* ------------------------------------------------------------------ *)
(* highlighter: getTextNodesInRange, highlightRange, removeHighlight   *)
(* ------------------------------------------------------------------ *)

\* TreeWalker(root, SHOW_TEXT).nextNode() sequence: the Text nodes below root in
\* document order; nextNode() never returns the root itself.
WalkerTextNodes(d, root) ==
  LET NotRoot(p) == p # root IN SelectSeq(TextPaths(d, root), NotRoot)

\* The tuple getTextNodesInRange computes for the Text node at path p.
TextNodeTuple(d, r, p) ==
  [node |-> p,
   startOffset |-> IF p = r.sc THEN r.so ELSE 0,
   endOffset |-> IF p = r.ec THEN r.eo ELSE Len(NodeAt(d, p).data)]

getTextNodesInRange(d, r) ==
  LET walked == WalkerTextNodes(d, CommonAncestor(r))
      Keep(p) == /\ IntersectsNode(r, p)
                 /\ TextNodeTuple(d, r, p).startOffset < TextNodeTuple(d, r, p).endOffset
      kept == SelectSeq(walked, Keep)
  IN [i \in 1..Len(kept) |-> TextNodeTuple(d, r, kept[i])]

\* A surroundContents that takes the whole Text node into the mark, whatever the
\* offsets of the fragment.
SurroundWholeText(n, a, b, type, id) ==
  << Txt(<<>>), MarkEl(type, id, << Txt(n.data) >>), Txt(<<>>) >>

\* Range.surroundContents(mark) for a range inside one Text node: the node keeps
\* data[0, a), the mark holds a new Text node with data[a, b), and a new Text node
\* with data[b, len) follows the mark. Empty Text nodes stay in the tree.
SurroundText(n, a, b, type, id) ==
  << Txt(SubSeq(n.data, 1, a)),
     MarkEl(type, id, << Txt(SubSeq(n.data, a + 1, b)) >>),
     Txt(SubSeq(n.data, b + 1, Len(n.data))) >>

\* The forEach of highlightRange: every Text node named by a tuple is replaced, in
\* place, by the three nodes surroundContents leaves; all other nodes are kept.
RECURSIVE WrapTuples(_, _, _, _, _)
WrapTuples(n, path, tuples, type, id) ==
  IF IsText(n)
  THEN LET hit == {i \in 1..Len(tuples) : tuples[i].node = path}
       IN IF hit = {} THEN << n >>
          ELSE LET t == tuples[CHOOSE i \in hit : TRUE]
               IN SurroundText(n, t.startOffset, t.endOffset, type, id)
  ELSE << [n EXCEPT !.ch =
             Flatten([i \in 1..Len(n.ch) |->
                        WrapTuples(n.ch[i], Append(path, i), tuples, type, id)])] >>

\* highlightRangeLegacy: range.surroundContents(mark) on the whole range. It is
\* reached with a range inside one Text node (the walker found no fragment).
highlightRangeLegacy(d, r, type, id) ==
  LET one == << [node |-> r.sc, startOffset |-> r.so, endOffset |-> r.eo] >>
  IN WrapTuples(d, <<>>, one, type, id)[1]

\* A highlightRange that puts one mark around everything the body holds, elements
\* included.
highlightBodyContents(d, r, type, id) ==
  [d EXCEPT !.ch[2].ch = << MarkEl(type, id, d.ch[2].ch) >>]

\* highlightRange(range, type, id): the document after the call.
highlightRange(d, r, type, id) ==
  LET textNodeRanges == getTextNodesInRange(d, r)
  IN IF Len(textNodeRanges) = 0
     THEN highlightRangeLegacy(d, r, type, id)
     ELSE WrapTuples(d, <<>>, textNodeRanges, type, id)[1]

\* Node.normalize(): empty Text nodes are removed, adjacent Text nodes merged.
RECURSIVE MergeText(_)
MergeText(cs) ==
  IF cs = <<>> THEN <<>>
  ELSE LET rest == MergeText(Tail(cs))
           c == Head(cs)
       IN IF IsText(c)
          THEN IF c.data = <<>> THEN rest
               ELSE IF rest # <<>> /\ IsText(Head(rest))
                    THEN << Txt(c.data \o Head(rest).data) >> \o Tail(rest)
                    ELSE << c >> \o rest
          ELSE << c >> \o rest

RECURSIVE Normalize(_)
Normalize(n) ==
  IF IsText(n) THEN n
  ELSE [n EXCEPT !.ch = MergeText([i \in 1..Len(n.ch) |-> Normalize(n.ch[i])])]

\* document.body.normalize()
NormalizeBody(d) == [d EXCEPT !.ch[2] = Normalize(d.ch[2])]

\* replaceChild(createTextNode(el.textContent), el) for every element of the
\* selection: the elements carrying data-gogo-id = id, or (id = 0) carrying any
\* data-gogo-id. An element inside a replaced one leaves the document with it.
Selected(n, id) == IF id = 0 THEN n.gid # 0 ELSE n.gid = id

\* A replacement that drops the selected elements together with their text.
RECURSIVE ReplaceByNothing(_, _)
ReplaceByNothing(n, id) ==
  IF IsText(n) THEN n
  ELSE IF Selected(n, id) THEN Txt(<<>>)
  ELSE [n EXCEPT !.ch = [i \in 1..Len(n.ch) |-> ReplaceByNothing(n.ch[i], id)]]

RECURSIVE ReplaceByText(_, _)
ReplaceByText(n, id) ==
  IF IsText(n) THEN n
  ELSE IF Selected(n, id) THEN Txt(TextContent(n))
  ELSE [n EXCEPT !.ch = [i \in 1..Len(n.ch) |-> ReplaceByText(n.ch[i], id)]]

\* removeHighlight(id): the document after the call.
removeHighlight(d, id) ==
  IF Len(MarkPaths(d, id)) = 0 THEN d
  ELSE NormalizeBody(ReplaceByText(d, id))

\* A clearAllHighlights that replaces the markers of the first annotation only.
clearFirstHighlight(d) == NormalizeBody(ReplaceByText(d, 1))

\* clearAllHighlights(): the document after the call.
clearAllHighlights(d) == NormalizeBody(ReplaceByText(d, 0))

(* ------------------------------------------------------------------ *)
(* xpath: generateXPath, document.evaluate                             *)
(* An XPath string is the sequence of its steps [tag, index];          *)
(* the empty string is the empty sequence.                             *)
(* ------------------------------------------------------------------ *)

\* parent.children: the element children of the node at path, as child positions.
ElementChildren(d, path) ==
  LET n == NodeAt(d, path)
      IsEl(i) == ~IsText(n.ch[i])
  IN SelectSeq([i \in 1..Len(n.ch) |-> i], IsEl)

\* Array.from(parent.children).indexOf(element) + 1 for the element at path.
SiblingIndex(d, path) ==
  LET sibs == ElementChildren(d, SubSeq(path, 1, Len(path) - 1))
  IN CHOOSE k \in 1..Len(sibs) : sibs[k] = path[Len(path)]

\* generateXPath(node): a Text node is replaced by its parent element; then one
\* step per element that has a parent element, walking up until parentElement is
\* null (the html element's parent is the Document, not an element).
generateXPath(d, path) ==
  LET start == IF IsText(NodeAt(d, path)) THEN SubSeq(path, 1, Len(path) - 1) ELSE path
  IN [k \in 1..Len(start) |->
        [tag |-> NodeAt(d, SubSeq(start, 1, k)).tag,
         index |-> SiblingIndex(d, SubSeq(start, 1, k))]]

\* A name test with a namespace prefix, which document.evaluate cannot resolve
\* with a null resolver.
HasPrefix(tag) == tag \in {"o:p"}

\* document.evaluate throws on the empty expression and on an unresolvable prefix.
EvaluateThrows(xpath) ==
  xpath = <<>> \/ \E k \in 1..Len(xpath) : HasPrefix(xpath[k].tag)

\* The step child::tag[index] from the children cs of the context node: the
\* index-th child element named tag, counted among the children of that name.
StepMatch(cs, step) ==
  LET Named(i) == ~IsText(cs[i]) /\ cs[i].tag = step.tag
      named == SelectSeq([i \in 1..Len(cs) |-> i], Named)
  IN IF step.index \in 1..Len(named) THEN named[step.index] ELSE 0

\* Evaluation of the absolute path from the Document, whose only child is html.
\* The result is [found, path].
RECURSIVE EvalSteps(_, _, _)
EvalSteps(d, path, steps) ==
  IF steps = <<>> THEN [found |-> TRUE, path |-> path]
  ELSE LET m == StepMatch(NodeAt(d, path).ch, Head(steps))
       IN IF m = 0 THEN [found |-> FALSE, path |-> <<>>]
          ELSE EvalSteps(d, Append(path, m), Tail(steps))

\* document.evaluate(xpath, document, null, FIRST_ORDERED_NODE_TYPE).singleNodeValue
Evaluate(d, xpath) ==
  IF StepMatch(<< d >>, Head(xpath)) = 0 THEN [found |-> FALSE, path |-> <<>>]
  ELSE EvalSteps(d, <<>>, Tail(xpath))

\* locateByXPath(xpath): null for the empty string and when document.evaluate
\* throws, else the first node found.
locateByXPath(d, xpath) ==
  IF xpath = <<>> \/ EvaluateThrows(xpath) THEN [found |-> FALSE, path |-> <<>>]
  ELSE Evaluate(d, xpath)

(* ------------------------------------------------------------------ *)
(* locator: createTextQuote, createLocationInfo                        *)
(* ------------------------------------------------------------------ *)

\* Characters of context kept on each side of the quote.
ContextLen == 32

\* A createTextQuote that keeps all the text before the start offset as prefix.
createTextQuoteUnclipped(d, r) ==
  [exact |-> RangeToString(d, r),
   prefix |-> Substring(TextContent(NodeAt(d, r.sc)), 0, r.so),
   suffix |-> Substring(TextContent(NodeAt(d, r.ec)), r.eo, r.eo + ContextLen)]

\* createTextQuote(range): textContent of the containers, offsets used as
\* character positions whatever the kind of the container.
createTextQuote(d, r) ==
  LET startText == TextContent(NodeAt(d, r.sc))
      endText == TextContent(NodeAt(d, r.ec))
  IN [exact |-> RangeToString(d, r),
      prefix |-> Substring(startText, Max(0, r.so - ContextLen), r.so),
      suffix |-> Substring(endText, r.eo, r.eo + ContextLen)]

createLocationInfo(d, r) ==
  [xpath |-> generateXPath(d, r.sc), textQuote |-> createTextQuote(d, r)]

(* ------------------------------------------------------------------ *)
(* highlighter: restoreHighlight and its stages                        *)
(* ------------------------------------------------------------------ *)

\* findTextNodeAtOffset(root, target): the first Text node under root (root
\* included) whose span [start, start + length] contains target, with the local
\* offset. The result is [found, node, offset].
RECURSIVE FindFrom(_, _, _, _, _)
FindFrom(d, tps, i, currentOffset, targetOffset) ==
  IF i > Len(tps) THEN [found |-> FALSE, node |-> <<>>, offset |-> 0]
  ELSE LET textLength == Len(NodeAt(d, tps[i]).data)
       IN IF currentOffset <= targetOffset /\ targetOffset <= currentOffset + textLength
          THEN [found |-> TRUE, node |-> tps[i], offset |-> targetOffset - currentOffset]
          ELSE FindFrom(d, tps, i + 1, currentOffset + textLength, targetOffset)

\* A search that takes a Text node only when the target is before its end.
RECURSIVE FindInside(_, _, _, _, _)
FindInside(d, tps, i, currentOffset, targetOffset) ==
  IF i > Len(tps) THEN [found |-> FALSE, node |-> <<>>, offset |-> 0]
  ELSE LET textLength == Len(NodeAt(d, tps[i]).data)
       IN IF currentOffset <= targetOffset /\ targetOffset < currentOffset + textLength
          THEN [found |-> TRUE, node |-> tps[i], offset |-> targetOffset - currentOffset]
          ELSE FindInside(d, tps, i + 1, currentOffset + textLength, targetOffset)

findTextNodeInside(d, root, targetOffset) ==
  FindInside(d, TextPaths(d, root), 1, 0, targetOffset)

findTextNodeAtOffset(d, root, targetOffset) ==
  FindFrom(d, TextPaths(d, root), 1, 0, targetOffset)

\* The Range restoreHighlight and findAndHighlightText build over the text of root:
\* [found, range].
RangeOverText(d, root, startOffset, length) ==
  LET startInfo == findTextNodeAtOffset(d, root, startOffset)
      endInfo == findTextNodeAtOffset(d, root, startOffset + length)
  IN [found |-> startInfo.found /\ endInfo.found,
      range |-> [sc |-> startInfo.node, so |-> startInfo.offset,
                 ec |-> endInfo.node, eo |-> endInfo.offset]]

\* document.querySelector('[data-gogo-id="id"]') finds an element.
HasMark(d, id) == Len(MarkPaths(d, id)) > 0

NoRange == [sc |-> <<>>, so |-> 0, ec |-> <<>>, eo |-> 0]

\* A call that ends before any Range is highlighted: the document is untouched.
Ended(ok, d) == [ok |-> ok, dom |-> d, range |-> NoRange]

\* A call that highlights the range and reports failure all the same.
HighlightedUnreported(d, r, type, id) ==
  [ok |-> FALSE, dom |-> highlightRange(d, r, type, id), range |-> r]

\* The result of a call whose highlightRange(range, type, id) left the document
\* after.
Reported(after, r, id) == [ok |-> HasMark(after, id), dom |-> after, range |-> r]

\* A call that ends after highlightRange(range, type, id): ok when a marker with
\* the id is found in the document.
Highlighted(d, r, type, id) == Reported(highlightRange(d, r, type, id), r, id)

\* findAndHighlightText(text, id, type, startOffset): [ok, dom, range].
findAndHighlightText(d, text, id, type, startOffset) ==
  LET ro == RangeOverText(d, BodyPath, startOffset, Len(text))
  IN IF ~ro.found THEN Ended(FALSE, d)
     ELSE Highlighted(d, ro.range, type, id)

\* restoreByTextQuote(id, textQuote, type): [ok, dom, range].
restoreByTextQuote(d, id, textQuote, type) ==
  LET bodyText == BodyText(d)
      searchPattern == textQuote.prefix \o textQuote.exact \o textQuote.suffix
      patternIndex == IndexOf(bodyText, searchPattern)
      exactIndex == IndexOf(bodyText, textQuote.exact)
  IN IF patternIndex = -1 /\ exactIndex = -1 THEN Ended(FALSE, d)
     ELSE findAndHighlightText(d, textQuote.exact, id, type,
                               IF patternIndex = -1 THEN exactIndex
                               ELSE patternIndex + Len(textQuote.prefix))

\* The structural stage of restoreHighlight, once the path resolved to node.
restoreAtNode(d, node, id, textQuote, type) ==
  LET index == IndexOf(TextContent(NodeAt(d, node)), textQuote.exact)
      ro == RangeOverText(d, node, index, Len(textQuote.exact))
  IN IF index = -1 THEN restoreByTextQuote(d, id, textQuote, type)
     ELSE IF ~ro.found THEN Ended(FALSE, d)
     ELSE Highlighted(d, ro.range, type, id)

\* document.querySelector('mark[data-gogo-id="id"]') finds an element.
HasMarkElement(d, id) ==
  \E i \in 1..Len(MarkPaths(d, id)) : NodeAt(d, MarkPaths(d, id)[i]).tag = "mark"

\* A restoreHighlight without the look-up of an existing marker.
restoreHighlightUnguarded(d, id, xpath, textQuote, type) ==
  IF EvaluateThrows(xpath) THEN Ended(FALSE, d)
  ELSE IF ~Evaluate(d, xpath).found THEN restoreByTextQuote(d, id, textQuote, type)
  ELSE restoreAtNode(d, Evaluate(d, xpath).path, id, textQuote, type)

\* restoreHighlight(id, xpath, textQuote, type): [ok, dom, range].
restoreHighlight(d, id, xpath, textQuote, type) ==
  IF HasMarkElement(d, id) THEN Ended(TRUE, d)
  ELSE IF EvaluateThrows(xpath) THEN Ended(FALSE, d)
  ELSE IF ~Evaluate(d, xpath).found THEN restoreByTextQuote(d, id, textQuote, type)
  ELSE restoreAtNode(d, Evaluate(d, xpath).path, id, textQuote, type)

(* ------------------------------------------------------------------ *)
(* Sample pages                                                        *)
(* ------------------------------------------------------------------ *)

\* <html><head></head><body>...</body></html>
Page(bodyChildren) == El("html", << El("head", <<>>), El("body", bodyChildren) >>)

\* 1: <p>ab<b>a</b></p>                    a quote can cross an element boundary,
\*                                         and "a" occurs twice
\* 2: <div>a</div><o:p>ab</o:p>            a prefixed tag name (Word export)
\* 3: <p><b>ab</b>c</p><p>ab</p>           the same text in two paragraphs
\* 4: <div><p>a<i>b</i></p>ab</div>
SamplePage(i) ==
  CASE i = 1 -> Page(<< El("p", << Txt(<<"a", "b">>), El("b", << Txt(<<"a">>) >>) >>) >>)
    [] i = 2 -> Page(<< El("div", << Txt(<<"a">>) >>), El("o:p", << Txt(<<"a", "b">>) >>) >>)
    [] i = 3 -> Page(<< El("p", << El("b", << Txt(<<"a", "b">>) >>), Txt(<<"c">>) >>),
                        El("p", << Txt(<<"a", "b">>) >>) >>)
    [] OTHER -> Page(<< El("div", << El("p", << Txt(<<"a">>), El("i", << Txt(<<"b">>) >>) >>),
                                     Txt(<<"a", "b">>) >>) >>)

Types == {"agree", "question"}

(* ------------------------------------------------------------------ *)
(* State                                                               *)
(* ------------------------------------------------------------------ *)

VARIABLES
  dom,      \* the live document (the html element)
  page,     \* which sample page the tab shows
  store,    \* the stored annotations collection, in creation order
  origin,   \* history: per stored annotation, the document and range it was made on
  last,     \* history: the last operation and what it did
  hl,       \* history: the highlightRange call of the last operation, if it made one
  started,  \* restoreWhenReady has run
  loaded,   \* how many of the page's body children are rendered
  loop,     \* per annotation of the page, its restoration loop
  timers,   \* the pending setTimeout callbacks of the loops, in firing order
  hunter,   \* HunterMode: the React state of the selection
  layout,   \* the viewport and the boxes the browser computed for the elements
  app,      \* the mode: chrome.storage, the hook state of each script, what is mounted
  pointer,  \* HunterMode: the refs and state of its mouse handlers
  records   \* hunter-records: chrome.storage and the hook state of each component

pollVars == <<started, loaded, loop, timers>>

vars == <<dom, page, store, origin, last, hl, started, loaded, loop, timers, hunter, layout, app,
          pointer, records>>

\* No button is down: mouseDownPos.current is null, hasMoved.current and
\* shiftKeyOnDown.current are false, isDragging is false.
NoPointer ==
  [down |-> FALSE, x |-> 0, y |-> 0, hasMoved |-> FALSE, shiftKeyOnDown |-> FALSE,
   isDragging |-> FALSE]

\* useStorage('hunter-records', []) in HunterMode and in RecordOverlays: nothing
\* is stored, both hooks hold the empty list, no change event is pending. A record
\* is written as its id.
NoRecords ==
  [storage |-> <<>>, hunterMode |-> <<>>, overlays |-> <<>>,
   inbox |-> [hunterMode |-> <<>>, overlays |-> <<>>]]

\* useStorage('mode', 'OFF') before its first read: the default, not loaded.
NotLoaded == [mode |-> "OFF", loaded |-> FALSE]

\* The scripts have just been injected: no mode is stored, nothing is mounted.
NoApp ==
  [storage |-> "NONE", cs |-> NotLoaded, con |-> NotLoaded,
   inbox |-> [cs |-> <<>>, con |-> <<>>],
   hasAnnotations |-> FALSE, annotationsLoaded |-> FALSE, mounted |-> {},
   annotations |-> [gogo |-> <<>>, panel |-> <<>>,
                    inbox |-> [gogo |-> <<>>, panel |-> <<>>]]]

\* No element (null) and no element list (null).
NoElement == <<0>>
NoElements == << NoElement >>

\* HunterMode as mounted: nothing selected, the edit panel closed.
NoSelection ==
  [selectedElement |-> NoElement, selectedElements |-> NoElements, selectionType |-> "single",
   elementCount |-> 0, showEditPanel |-> FALSE, panelPosition |-> [x |-> 0, y |-> 0]]

\* The layout is of no concern while HunterMode is not in use.
NoLayout == [viewport |-> [width |-> 0, height |-> 0], box |-> <<>>, hidden |-> {}]

\* No highlightRange call, and the call highlightRange(range, type, id) on doc.
NoCall == [called |-> FALSE, doc |-> <<>>, range |-> NoRange, type |-> "", id |-> 0]

Call(doc, range, type, id) ==
  [called |-> TRUE, doc |-> doc, range |-> range, type |-> type, id |-> id]

\* The record of an operation: op and the id it was called with; ok, its result;
\* stored, a restore was called with the stored structural path; fresh, a restore
\* ran on the very document the descriptor was made on; had, a marker with the id
\* was in the document before the call; changed, the call changed the document.
Op(op, id, ok, stored, fresh, had, changed) ==
  [op |-> op, id |-> id, ok |-> ok, stored |-> stored, fresh |-> fresh,
   had |-> had, changed |-> changed]

InitDom ==
  /\ page \in 1..NPages
  /\ dom = SamplePage(page)
  /\ store = <<>>
  /\ origin = <<>>
  /\ last = Op("load", 0, TRUE, FALSE, FALSE, FALSE, FALSE)
  /\ hl = NoCall
  /\ started = FALSE
  /\ loaded = Len(SamplePage(page).ch[2].ch)
  /\ loop = <<>>
  /\ timers = <<>>
  /\ hunter = NoSelection
  /\ layout = NoLayout
  /\ app = NoApp
  /\ pointer = NoPointer
  /\ records = NoRecords

\* handleAnnotate(type) on the current selection r; crypto.randomUUID() yields the
\* next unused id. Invalid location info raises before the document is touched.
Annotate(r, type) ==
  /\ Len(store) < MaxAnn
  /\ \E id \in {Len(store) + 1}, loc \in {createLocationInfo(dom, r)} :
       \E valid \in {loc.xpath # <<>> /\ loc.textQuote.exact # <<>>} :
       \E after \in {IF valid THEN highlightRange(dom, r, type, id) ELSE dom} :
         LET done == valid /\ HasMark(after, id)
         IN /\ dom' = after
            /\ store' = IF done
                        THEN Append(store, [id |-> id, type |-> type, xpath |-> loc.xpath,
                                            textQuote |-> loc.textQuote])
                        ELSE store
            /\ origin' = IF done THEN Append(origin, [doc |-> dom, range |-> r])
                         ELSE origin
            /\ last' = Op("annotate", id, done, FALSE, FALSE, FALSE, dom' # dom)
            /\ hl' = IF valid THEN Call(dom, r, type, id) ELSE NoCall
  /\ UNCHANGED <<pointer, records, app, hunter, layout, page, pollVars>>

\* The page is loaded again: the document is the page's own markup, the stored
\* annotations persist.
Reload ==
  /\ dom' = SamplePage(page)
  /\ last' = Op("load", 0, TRUE, FALSE, FALSE, FALSE, dom' # dom)
  /\ hl' = NoCall
  /\ UNCHANGED <<pointer, records, app, hunter, layout, page, store, origin, pollVars>>

\* The absolute path of the element at path as XPath counts it (tag[k]: the k-th
\* child of that name), from /html[1] down.
NameIndex(d, path) ==
  LET parent == NodeAt(d, SubSeq(path, 1, Len(path) - 1))
  IN Cardinality({i \in 1..path[Len(path)] :
                    ~IsText(parent.ch[i]) /\ parent.ch[i].tag = NodeAt(d, path).tag})

DocumentPath(d, path) ==
  << [tag |-> "html", index |-> 1] >> \o
  [k \in 1..Len(path) |->
     [tag |-> NodeAt(d, SubSeq(path, 1, k)).tag, index |-> NameIndex(d, SubSeq(path, 1, k))]]

\* Structural paths a restoreHighlight call is tried with besides the stored one:
\* the empty string and the document paths of the page's body elements.
OtherXPaths ==
  {<<>>} \cup {DocumentPath(SamplePage(page), p) :
                 p \in SeqRange(ElemPaths(SamplePage(page), BodyPath))}

\* restoreHighlight(a.id, xpath, a.textQuote, a.type) for a stored annotation a.
Restore(i, xpath) ==
  /\ \E a \in {store[i]} :
       \E res \in {restoreHighlight(dom, a.id, xpath, a.textQuote, a.type)} :
         /\ dom' = res.dom
         /\ last' = Op("restore", a.id, res.ok, xpath = a.xpath, dom = origin[i].doc,
                       HasMarkElement(dom, a.id), res.dom # dom)
         /\ hl' = IF res.range = NoRange THEN NoCall
                  ELSE Call(dom, res.range, a.type, a.id)
  /\ UNCHANGED <<pointer, records, app, hunter, layout, page, store, origin, pollVars>>

\* The REMOVE_ANNOTATION message: removeHighlight(id).
Remove(id) ==
  /\ dom' = removeHighlight(dom, id)
  /\ last' = Op("remove", id, TRUE, FALSE, FALSE, HasMark(dom, id), dom' # dom)
  /\ hl' = NoCall
  /\ UNCHANGED <<pointer, records, app, hunter, layout, page, store, origin, pollVars>>

\* The CLEAR_ALL_ANNOTATIONS message: clearAllHighlights().
ClearAll ==
  /\ dom' = clearAllHighlights(dom)
  /\ last' = Op("clear", 0, TRUE, FALSE, FALSE, FALSE, dom' # dom)
  /\ hl' = NoCall
  /\ UNCHANGED <<pointer, records, app, hunter, layout, page, store, origin, pollVars>>

\* The operations on a rendered page; no restoration loop is running.
NextDom ==
  \/ \E r \in BodyRanges(dom), type \in Types : Annotate(r, type)
  \/ Reload
  \/ \E i \in 1..Len(store) : Restore(i, store[i].xpath)
  \/ \E i \in 1..Len(store), xpath \in OtherXPaths : Restore(i, xpath)
  \/ \E id \in 1..MaxAnn : Remove(id)
  \/ ClearAll

Spec == InitDom /\ [][NextDom]_vars

(* ------------------------------------------------------------------ *)
(* GOGOMode: the restoration loops started when the page is opened     *)
(* ------------------------------------------------------------------ *)

\* Annotations whose restoration is followed.
NLoop == 2

\* const MAX_RETRIES = 20
MAX_RETRIES == 20

\* The ranges that select one whole Text node of d.
WholeTextRanges(d) ==
  {r \in BodyRanges(d) : /\ IsText(NodeAt(d, r.sc)) /\ r.ec = r.sc
                         /\ r.so = 0 /\ r.eo = Len(NodeAt(d, r.sc).data)}

\* The annotations storage can hold for page p: made by createLocationInfo on the
\* rendered page.
PageAnnotations(p) ==
  {[i \in 1..NLoop |->
      [id |-> i, type |-> "agree",
       xpath |-> createLocationInfo(SamplePage(p), rs[i]).xpath,
       textQuote |-> createLocationInfo(SamplePage(p), rs[i]).textQuote]] :
     rs \in [1..NLoop -> WholeTextRanges(SamplePage(p))]}

\* A loop: pc is "idle" before restoreWhenReady, "waiting" with a timer pending,
\* "restored" or "failed" after its restoreHighlight call, "timeout" after giving
\* up; retryCount is the argument of its pending or last run. History: checks,
\* the runs of tryRestoreWithRetry; seen, a run found the quote in the body text;
\* calls, the restoreHighlight calls.
IdleLoop ==
  [pc |-> "idle", retryCount |-> 0, checks |-> 0, seen |-> FALSE, calls |-> 0]

\* The page is opened: the stored annotations are read, nothing is rendered yet.
InitPoll ==
  /\ page \in 1..NPages
  /\ dom = Page(<<>>)
  /\ store \in PageAnnotations(page)
  /\ origin = <<>>
  /\ last = Op("load", 0, TRUE, FALSE, FALSE, FALSE, FALSE)
  /\ hl = NoCall
  /\ started = FALSE
  /\ loaded = 0
  /\ loop = [i \in 1..NLoop |-> IdleLoop]
  /\ timers = <<>>
  /\ hunter = NoSelection
  /\ layout = NoLayout
  /\ app = NoApp
  /\ pointer = NoPointer
  /\ records = NoRecords

\* The end of a run that called restoreHighlight, with the call's result res.
Restored(res) == [dom |-> res.dom, outcome |-> IF res.ok THEN "restored" ELSE "failed"]

\* A tryRestoreWithRetry that reschedules once more than MAX_RETRIES allows.
tryRestoreOnceMore(d, annotation, retryCount) ==
  IF ~Includes(BodyText(d), annotation.textQuote.exact)
  THEN IF retryCount <= MAX_RETRIES
       THEN [dom |-> d, outcome |-> "retry"]
       ELSE [dom |-> d, outcome |-> "timeout"]
  ELSE Restored(restoreHighlight(d, annotation.id, annotation.xpath,
                                 annotation.textQuote, annotation.type))

\* tryRestoreWithRetry(annotation, retryCount): the document after the run and what
\* the run did: "retry" (setTimeout with retryCount + 1), "timeout", or the
\* restoreHighlight call with its result, "restored" or "failed".
tryRestoreWithRetry(d, annotation, retryCount) ==
  IF ~Includes(BodyText(d), annotation.textQuote.exact)
  THEN IF retryCount < MAX_RETRIES
       THEN [dom |-> d, outcome |-> "retry"]
       ELSE [dom |-> d, outcome |-> "timeout"]
  ELSE Restored(restoreHighlight(d, annotation.id, annotation.xpath,
                                 annotation.textQuote, annotation.type))

\* What the run of tryRestoreWithRetry(store[i], retryCount) leaves of
\* st = [dom, loop, timers].
Ran(st, i, retryCount, run) ==
  LET called == run.outcome \in {"restored", "failed"}
  IN [dom |-> run.dom,
      loop |-> [st.loop EXCEPT ![i] =
                  [pc |-> IF run.outcome = "retry" THEN "waiting" ELSE run.outcome,
                   retryCount |-> IF run.outcome = "retry" THEN retryCount + 1
                                  ELSE retryCount,
                   checks |-> @.checks + 1,
                   seen |-> @.seen \/ Includes(BodyText(st.dom), store[i].textQuote.exact),
                   calls |-> @.calls + (IF called THEN 1 ELSE 0)]],
      timers |-> IF run.outcome = "retry"
                 THEN Append(st.timers, [ann |-> i, retryCount |-> retryCount + 1])
                 ELSE st.timers]

\* One run of tryRestoreWithRetry(store[i], retryCount) in st = [dom, loop, timers].
RunLoop(st, i, retryCount) ==
  CHOOSE after \in {Ran(st, i, retryCount, run) :
                      run \in {tryRestoreWithRetry(st.dom, store[i], retryCount)}} : TRUE

\* A forEach that stops at the first annotation that was not restored.
RECURSIVE StartLoopsWhileRestored(_, _)
StartLoopsWhileRestored(st, n) ==
  IF n = 0 THEN st
  ELSE CHOOSE after \in
         {IF n > 1 /\ before.loop[n - 1].pc # "restored" THEN before
          ELSE RunLoop(before, n, 0) : before \in {StartLoopsWhileRestored(st, n - 1)}} : TRUE

\* pageAnnotations.forEach(annotation => tryRestoreWithRetry(annotation, 0)) over
\* the first n annotations: the n-th run starts from what the runs before it left.
RECURSIVE StartLoops(_, _)
StartLoops(st, n) ==
  IF n = 0 THEN st
  ELSE CHOOSE after \in
         {RunLoop(before, n, 0) : before \in {StartLoops(st, n - 1)}} : TRUE

\* restoreWhenReady, run once by the timer or the DOMContentLoaded listener the
\* effect registered.
RestoreWhenReady ==
  /\ ~started
  /\ started' = TRUE
  /\ \E st \in {StartLoops([dom |-> dom, loop |-> loop, timers |-> timers], Len(store))} :
       dom' = st.dom /\ loop' = st.loop /\ timers' = st.timers
  /\ UNCHANGED <<pointer, records, app, hunter, layout, page, store, origin, last, hl, loaded>>

\* The oldest pending timer fires (all timers have the same delay, so they fire in
\* the order they were set): tryRestoreWithRetry(annotation, retryCount).
Tick ==
  /\ timers # <<>>
  /\ \E st \in {RunLoop([dom |-> dom, loop |-> loop, timers |-> Tail(timers)],
                         Head(timers).ann, Head(timers).retryCount)} :
       dom' = st.dom /\ loop' = st.loop /\ timers' = st.timers
  /\ UNCHANGED <<pointer, records, app, hunter, layout, page, store, origin, last, hl, started, loaded>>

\* The page renders its next body child.
LoadContent ==
  /\ loaded < Len(SamplePage(page).ch[2].ch)
  /\ loaded' = loaded + 1
  /\ dom' = [dom EXCEPT !.ch[2].ch = Append(@, SamplePage(page).ch[2].ch[loaded + 1])]
  /\ UNCHANGED <<pointer, records, app, hunter, layout, page, store, origin, last, hl, started, loop, timers>>

NextPoll ==
  \/ RestoreWhenReady
  \/ Tick
  \/ LoadContent

SpecPoll == InitPoll /\ [][NextPoll]_vars

(* ------------------------------------------------------------------ *)
(* highlighter entry points called directly, with several ids          *)
(* ------------------------------------------------------------------ *)

\* Ids highlightRange is called with (customId), each at most once at a time.
NIds == 2

\* The ranges of d that select some text and have both boundary points in Text
\* nodes, as the ranges restoreHighlight builds have.
TextRanges(d) ==
  {r \in BodyRanges(d) : /\ IsText(NodeAt(d, r.sc)) /\ IsText(NodeAt(d, r.ec))
                         /\ RangeToString(d, r) # <<>>}

\* highlightRange(r, type, id) with a custom id no marker carries yet.
Highlight(r, type, id) ==
  /\ ~HasMark(dom, id)
  /\ \E after \in {highlightRange(dom, r, type, id)} :
       /\ dom' = after
       /\ last' = Op("highlight", id, HasMark(after, id), FALSE, FALSE, FALSE, after # dom)
  /\ hl' = Call(dom, r, type, id)
  /\ UNCHANGED <<pointer, records, app, hunter, layout, page, store, origin, pollVars>>

\* The cleanup of GOGOMode's mount effect: clearAllHighlights(). History: the
\* document the cleanup found.
Unmount ==
  /\ dom' = clearAllHighlights(dom)
  /\ last' = [op |-> "unmount", before |-> dom]
  /\ hl' = NoCall
  /\ UNCHANGED <<pointer, records, app, hunter, layout, page, store, origin, pollVars>>

NextMarks ==
  \/ \E r \in TextRanges(dom), type \in Types, id \in 1..NIds : Highlight(r, type, id)
  \/ ClearAll
  \/ Unmount

SpecMarks == InitDom /\ [][NextMarks]_vars

\* removeHighlight(id), for an id that markers carry or that none carries.
RemoveHighlight(id) ==
  /\ dom' = removeHighlight(dom, id)
  /\ last' = [op |-> "removeHighlight", id |-> id, before |-> dom]
  /\ hl' = NoCall
  /\ UNCHANGED <<pointer, records, app, hunter, layout, page, store, origin, pollVars>>

\* Highlights of several annotations are made and removed one by one.
NextRemove ==
  \/ \E r \in TextRanges(dom), id \in 1..NIds : Highlight(r, "agree", id)
  \/ \E id \in 1..NIds : RemoveHighlight(id)

SpecRemove == InitDom /\ [][NextRemove]_vars

(* ------------------------------------------------------------------ *)
(* highlighter entry points and the exceptions that leave them         *)
(* ------------------------------------------------------------------ *)

\* An id whose text holds a double quote; every other id stands for a UUID.
QuoteId == 9

\* The characters of an id.
IdText(id) == IF id = QuoteId THEN <<"a", "\"", "b">> ELSE <<"u">> \o [k \in 1..id |-> "1"]

\* `[data-gogo-id="${id}"]`: the template literal, as a sequence of tokens and of
\* the characters of the id.
AttrSelector(id) == <<"[", "data-gogo-id", "=", "\"">> \o IdText(id) \o <<"\"", "]">>

\* querySelector / querySelectorAll throw a SyntaxError unless the quoted value
\* that opens at the fourth token closes right before the final "]".
SelectorThrows(sel) ==
  LET closing == CHOOSE k \in 5..Len(sel) :
                   sel[k] = "\"" /\ \A j \in 5..(k - 1) : sel[j] # "\""
  IN ~(closing = Len(sel) - 1 /\ sel[Len(sel)] = "]")

\* removeHighlight(id) throws: the look-up of line 208 is outside any try.
removeHighlightThrows(id) == SelectorThrows(AttrSelector(id))

\* restoreHighlight(id, ...) throws: the look-up of line 284 precedes the try.
restoreHighlightThrows(id) == SelectorThrows(AttrSelector(id))

\* highlightRange(range, type, id) throws: on the split path the markers are
\* inserted and then looked up outside any try.
highlightRangeThrows(d, r, id) ==
  Len(getTextNodesInRange(d, r)) > 0 /\ SelectorThrows(AttrSelector(id))

\* The ids the entry points are called with.
EntryIds == {1, QuoteId}

\* The record of a call of an entry point fn with id: threw, an exception reached
\* the caller.
Entry(fn, id, threw) == [op |-> "entry", fn |-> fn, id |-> id, threw |-> threw]

EntryHighlight(r, type, id) ==
  /\ ~HasMark(dom, id)
  /\ dom' = highlightRange(dom, r, type, id)
  /\ last' = Entry("highlightRange", id, highlightRangeThrows(dom, r, id))
  /\ hl' = Call(dom, r, type, id)
  /\ UNCHANGED <<pointer, records, app, hunter, layout, page, store, origin, pollVars>>

EntryRemove(id) ==
  /\ dom' = IF removeHighlightThrows(id) THEN dom ELSE removeHighlight(dom, id)
  /\ last' = Entry("removeHighlight", id, removeHighlightThrows(id))
  /\ hl' = NoCall
  /\ UNCHANGED <<pointer, records, app, hunter, layout, page, store, origin, pollVars>>

EntryClear ==
  /\ dom' = clearAllHighlights(dom)
  /\ last' = Entry("clearAllHighlights", 0, FALSE)
  /\ hl' = NoCall
  /\ UNCHANGED <<pointer, records, app, hunter, layout, page, store, origin, pollVars>>

\* restoreHighlight(id, xpath, textQuote, type) with the descriptor of the range r
\* of the page as it was served.
EntryRestore(id, r, type) ==
  /\ \E loc \in {createLocationInfo(SamplePage(page), r)} :
     \E res \in {IF restoreHighlightThrows(id) THEN Ended(FALSE, dom)
                 ELSE restoreHighlight(dom, id, loc.xpath, loc.textQuote, type)} :
       /\ dom' = res.dom
       /\ hl' = IF res.range = NoRange THEN NoCall ELSE Call(dom, res.range, type, id)
  /\ last' = Entry("restoreHighlight", id, restoreHighlightThrows(id))
  /\ UNCHANGED <<pointer, records, app, hunter, layout, page, store, origin, pollVars>>

NextEntry ==
  \/ \E r \in TextRanges(dom), type \in Types, id \in EntryIds : EntryHighlight(r, type, id)
  \/ \E id \in EntryIds : EntryRemove(id)
  \/ EntryClear
  \/ \E id \in EntryIds, r \in WholeTextRanges(SamplePage(page)), type \in Types :
       EntryRestore(id, r, type)

SpecEntry == InitDom /\ [][NextEntry]_vars

(* ------------------------------------------------------------------ *)
(* highlightRange when a wrap throws                                   *)
(* ------------------------------------------------------------------ *)

\* highlightRange(range, type, id) when the wraps of the fragments numbered in
\* thrown throw before they change the tree: the catch of the forEach logs and
\* goes on with the next fragment. The legacy wrap is called for an empty
\* fragment list only.
highlightRangeSkipping(d, r, type, id, thrown) ==
  LET textNodeRanges == getTextNodesInRange(d, r)
      skipped == {textNodeRanges[i] : i \in thrown}
      Wrapped(t) == t \notin skipped
  IN IF Len(textNodeRanges) = 0
     THEN highlightRangeLegacy(d, r, type, id)
     ELSE WrapTuples(d, <<>>, SelectSeq(textNodeRanges, Wrapped), type, id)[1]

\* The record of a highlightRange call: fragments computed, wraps that threw,
\* marks in the document afterwards, whether a marker came back (the legacy wrap
\* returns its mark, the split path the first mark found by the selector) and
\* whether the legacy wrap ran.
Wrap(id, fragments, thrown, after) ==
  [op |-> "wrap", id |-> id, fragments |-> fragments, thrown |-> Cardinality(thrown),
   marks |-> Len(MarkPaths(after, id)),
   returned |-> fragments = 0 \/ HasMark(after, id),
   legacy |-> fragments = 0]

HighlightSkipping(r, type, id) ==
  /\ ~HasMark(dom, id)
  /\ RangeToString(dom, r) # <<>>
  /\ \E fragments \in {Len(getTextNodesInRange(dom, r))} :
     \E thrown \in SUBSET (1..fragments) :
     \E after \in {highlightRangeSkipping(dom, r, type, id, thrown)} :
       /\ dom' = after
       /\ last' = Wrap(id, fragments, thrown, after)
  /\ hl' = Call(dom, r, type, id)
  /\ UNCHANGED <<pointer, records, app, hunter, layout, page, store, origin, pollVars>>

NextWrap ==
  \/ \E r \in BodyRanges(dom), type \in Types, id \in 1..MaxAnn : HighlightSkipping(r, type, id)
  \/ ClearAll

SpecWrap == InitDom /\ [][NextWrap]_vars

(* ------------------------------------------------------------------ *)
(* handleAnnotate and the storage write                                *)
(* ------------------------------------------------------------------ *)

\* What useStorage.setValue does with the new collection: it writes it, the
\* write is rejected and setValue throws, or the extension context is invalid
\* and setValue returns without writing.
StorageOutcomes == {"written", "rejected", "invalid"}

\* The record of a handleAnnotate call: marked, markers with the new id are in
\* the document afterwards; written, a record with the new id is in the stored
\* collection afterwards; failed, the catch block ran.
Annotated(id, storage, marked, written, failed) ==
  [op |-> "handleAnnotate", id |-> id, storage |-> storage, marked |-> marked,
   written |-> written, failed |-> failed]

\* handleAnnotate(type) on the selection r with the given outcome of the storage
\* write. The catch block logs and shows a toast; it does not touch the document.
AnnotateStoring(r, type, storage) ==
  /\ Len(store) < MaxAnn
  /\ \E id \in {Len(store) + 1}, loc \in {createLocationInfo(dom, r)} :
       /\ ~HasMark(dom, id)
       /\ \E valid \in {loc.xpath # <<>> /\ loc.textQuote.exact # <<>>} :
          \E after \in {IF valid THEN highlightRange(dom, r, type, id) ELSE dom} :
          \E marked \in {HasMark(after, id)} :
          \E written \in {valid /\ marked /\ storage = "written"} :
            /\ dom' = after
            /\ store' = IF written
                        THEN Append(store, [id |-> id, type |-> type, xpath |-> loc.xpath,
                                            textQuote |-> loc.textQuote])
                        ELSE store
            /\ origin' = IF written THEN Append(origin, [doc |-> dom, range |-> r])
                         ELSE origin
            /\ last' = Annotated(id, storage, marked, written,
                                 ~valid \/ ~marked \/ storage = "rejected")
            /\ hl' = IF valid THEN Call(dom, r, type, id) ELSE NoCall
  /\ UNCHANGED <<pointer, records, app, hunter, layout, page, pollVars>>

NextAnnotate ==
  \/ \E r \in BodyRanges(dom), type \in Types, storage \in StorageOutcomes :
       AnnotateStoring(r, type, storage)
  \/ Reload

SpecAnnotate == InitDom /\ [][NextAnnotate]_vars

(* ------------------------------------------------------------------ *)
(* generateXPath on the nodes of a page                                *)
(* ------------------------------------------------------------------ *)

\* generateXPath(node) for the node at path of the document as it is.
GenerateXPath(path) ==
  /\ last' = [op |-> "generateXPath", node |-> path, xpath |-> generateXPath(dom, path)]
  /\ hl' = NoCall
  /\ UNCHANGED <<pointer, records, app, hunter, layout, dom, page, store, origin, pollVars>>

\* locateByXPath(generateXPath(element)) for an element of the document.
LocateGenerated(path) ==
  /\ ~IsText(NodeAt(dom, path))
  /\ \E xpath \in {generateXPath(dom, path)} :
       last' = [op |-> "locateGenerated", node |-> path, xpath |-> xpath,
                result |-> locateByXPath(dom, xpath)]
  /\ hl' = NoCall
  /\ UNCHANGED <<pointer, records, app, hunter, layout, dom, page, store, origin, pollVars>>

NextXPath ==
  \/ \E path \in SeqRange(NodePaths(dom, <<>>)) : GenerateXPath(path)
  \/ \E path \in SeqRange(NodePaths(dom, <<>>)) : LocateGenerated(path)
  \/ \E r \in TextRanges(dom), type \in Types, id \in 1..MaxAnn : Highlight(r, type, id)
  \/ ClearAll

SpecXPath == InitDom /\ [][NextXPath]_vars

(* ------------------------------------------------------------------ *)
(* createTextQuote on a paragraph longer than the context              *)
(* ------------------------------------------------------------------ *)

\* A text of 2 * ContextLen + 3 characters, of period 7.
LongText == [i \in 1..(2 * ContextLen + 3) |-> <<"a", "b", "c", "d", "e", "f", "g">>[(i % 7) + 1]]

\* <p>abcdefg...<b>a</b></p>
LongPage == Page(<< El("p", << Txt(LongText), El("b", << Txt(<<"a">>) >>) >>) >>)

\* The long page is shown (page 0) and the user has selected the range r.
InitQuote ==
  /\ page = 0
  /\ dom = LongPage
  /\ store = <<>>
  /\ origin = <<>>
  /\ \E r \in BodyRanges(LongPage) : last = [op |-> "select", range |-> r]
  /\ hl = NoCall
  /\ started = FALSE
  /\ loaded = Len(LongPage.ch[2].ch)
  /\ loop = <<>>
  /\ timers = <<>>
  /\ hunter = NoSelection
  /\ layout = NoLayout
  /\ app = NoApp
  /\ pointer = NoPointer
  /\ records = NoRecords

\* createTextQuote(range) on the selection.
CreateTextQuote ==
  /\ last.op = "select"
  /\ last' = [op |-> "createTextQuote", range |-> last.range,
              quote |-> createTextQuote(dom, last.range)]
  /\ UNCHANGED <<pointer, records, app, hunter, layout, dom, page, store, origin, hl, pollVars>>

NextQuote == CreateTextQuote

SpecQuote == InitQuote /\ [][NextQuote]_vars

(* ------------------------------------------------------------------ *)
(* hunter: ancestor.ts and detector (elements are named by their path) *)
(* ------------------------------------------------------------------ *)

\* Node.contains(other): other is the node or one of its descendants.
Contains(node, other) == IsPrefix(node, other)

\* A getOutermostElements that filters nothing.
getAllElements(elements) == elements

\* getOutermostElements(elements): the filter keeps el unless another element of
\* the list contains it.
getOutermostElements(elements) ==
  IF Len(elements) <= 1 THEN elements
  ELSE LET isContainedByOther(el) ==
             \E i \in 1..Len(elements) : elements[i] # el /\ Contains(elements[i], el)
           Kept(el) == ~isContainedByOther(el)
       IN SelectSeq(elements, Kept)

\* A findCommonAncestor that answers document.body for two or more elements.
findBody(elements) == IF Len(elements) = 1 THEN elements[1] ELSE BodyPath

\* findCommonAncestor(elements): body for no element, the element for one;
\* otherwise the first element's chain (itself first, the html element left
\* out) is searched for the first member that contains every element, and body
\* is the answer when there is none.
findCommonAncestor(elements) ==
  IF Len(elements) = 0 THEN BodyPath
  ELSE IF Len(elements) = 1 THEN elements[1]
  ELSE LET first == elements[1]
           ancestors == [k \in 1..Len(first) |-> SubSeq(first, 1, Len(first) - k + 1)]
           containsAll(a) == \A i \in 1..Len(elements) : Contains(a, elements[i])
           found == {k \in 1..Len(ancestors) : containsAll(ancestors[k])}
       IN IF found = {} THEN BodyPath
          ELSE ancestors[CHOOSE k \in found : \A j \in found : k <= j]

\* getElementDepth / getDepth: the steps up the parentElement chain until body,
\* or until the chain ends for an element that is not under body.
getElementDepth(element) ==
  IF IsPrefix(BodyPath, element) THEN Len(element) - Len(BodyPath) ELSE Len(element) + 1

\* getBoundingClientRect(): width and height of a box.
Width(box) == box.right - box.left
Height(box) == box.bottom - box.top

\* An isReasonableAncestor without the check of the size.
isAncestorOfReasonableDepth(d, lay, ancestor) ==
  /\ ancestor # BodyPath /\ ancestor # <<>>
  /\ NodeAt(d, ancestor).tag \notin {"body", "html"}
  /\ getElementDepth(ancestor) >= 3
  /\ getElementDepth(ancestor) <= 10

\* isReasonableAncestor(ancestor): not a root element, depth in 3..10, and the
\* box at most 0.8 of the viewport in width and in height (w / vw > 0.8 is
\* 10 * w > 8 * vw on whole pixels).
isReasonableAncestor(d, lay, ancestor) ==
  IF \/ ancestor = BodyPath \/ ancestor = <<>>
     \/ NodeAt(d, ancestor).tag \in {"body", "html"}
  THEN FALSE
  ELSE IF getElementDepth(ancestor) < 3 THEN FALSE
  ELSE IF getElementDepth(ancestor) > 10 THEN FALSE
  ELSE IF \/ 10 * Width(lay.box[ancestor]) > 8 * lay.viewport.width
          \/ 10 * Height(lay.box[ancestor]) > 8 * lay.viewport.height
  THEN FALSE
  ELSE TRUE

\* The selectors of the tool's own UI that findElementsInRect tests with closest().
ToolSelectors ==
  {"#gogo-console-root", ".floating-console", ".hunter-canvas", ".hunter-edit-panel",
   ".hunter-hover-preview", ".hunter-highlight-overlay", ".record-overlay", ".record-badge"}

\* An element that matches the selector sel (cls holds the selector).
ToolEl(tag, sel, ch) == [El(tag, ch) EXCEPT !.cls = sel]

\* htmlEl.closest(sel) for one of the tool's selectors: the element or one of its
\* ancestors matches.
InToolUI(d, el) ==
  \E k \in 0..Len(el) : NodeAt(d, SubSeq(el, 1, k)).cls \in ToolSelectors

\* Elements ordered by depth, deepest first; Array.prototype.sort is stable.
SortByDepth(elements) ==
  LET depths == {getElementDepth(elements[i]) : i \in 1..Len(elements)}
      deepest == IF depths = {} THEN 0 ELSE CHOOSE m \in depths : \A n \in depths : n <= m
      AtDepth(k) == LET Is(el) == getElementDepth(el) = k IN SelectSeq(elements, Is)
  IN Flatten([k \in 1..(deepest + 1) |-> AtDepth(deepest + 1 - k)])

\* The rect with left <= right and top <= bottom.
NormalizedRect(rect) ==
  [left |-> Min(rect.startX, rect.endX), right |-> Max(rect.startX, rect.endX),
   top |-> Min(rect.startY, rect.endY), bottom |-> Max(rect.startY, rect.endY)]

\* The area of the intersection of two boxes.
IntersectArea(a, b) ==
  Max(0, Min(a.right, b.right) - Max(a.left, b.left)) *
  Max(0, Min(a.bottom, b.bottom) - Max(a.top, b.top))

\* A BoxSelected without the lower bound on the size of the box.
BoxSelectedAnySize(bounds, sel) ==
  \/ /\ bounds.left >= sel.left /\ bounds.right <= sel.right
     /\ bounds.top >= sel.top /\ bounds.bottom <= sel.bottom
  \/ /\ Width(bounds) * Height(bounds) > 0
     /\ 2 * IntersectArea(bounds, sel) >= Width(bounds) * Height(bounds)

\* The test findElementsInRect makes on the box of an element against the
\* normalized selection: larger than 5 x 5, touching the selection, at most 3
\* times its area, and inside it fully or with half of its own area
\* (intersectArea / elementArea >= 0.5 is 2 * intersectArea >= elementArea, and
\* the ratio is 0 for an empty box).
BoxSelected(bounds, sel) ==
  LET isFullyInside == /\ bounds.left >= sel.left /\ bounds.right <= sel.right
                       /\ bounds.top >= sel.top /\ bounds.bottom <= sel.bottom
      isPartiallyInside == /\ bounds.right >= sel.left /\ bounds.left <= sel.right
                           /\ bounds.bottom >= sel.top /\ bounds.top <= sel.bottom
      elementArea == Width(bounds) * Height(bounds)
      hasSignificantOverlap == elementArea > 0 /\ 2 * IntersectArea(bounds, sel) >= elementArea
      isReasonableSize == elementArea <= Width(sel) * Height(sel) * 3
  IN /\ Width(bounds) > 5 /\ Height(bounds) > 5
     /\ isPartiallyInside /\ isReasonableSize
     /\ (isFullyInside \/ hasSignificantOverlap)

\* The elements findElementsInRect looks at: displayed, visible, outside the
\* tool's UI, neither body nor html; in document order.
Candidates(d, lay) ==
  LET Candidate(el) == /\ el \notin lay.hidden
                       /\ ~InToolUI(d, el)
                       /\ el # BodyPath /\ el # <<>>
  IN SelectSeq(ElemPaths(d, <<>>), Candidate)

\* findElementsInRect(rect)
findElementsInRect(d, lay, rect) ==
  LET InRect(el) == BoxSelected(lay.box[el], NormalizedRect(rect))
  IN SortByDepth(SelectSeq(Candidates(d, lay), InRect))

\* isMeaningfulElement(el): an image, a control, or an element with text that is
\* not all white space.
isMeaningfulElement(d, el) ==
  \/ NodeAt(d, el).tag \in {"img", "svg", "canvas"}
  \/ NodeAt(d, el).tag \in {"a", "button", "input", "select", "textarea"}
  \/ \E i \in 1..Len(TextContent(NodeAt(d, el))) :
       TextContent(NodeAt(d, el))[i] \notin {" ", "\n", "\t"}

\* The selection of one element or of a group under its ancestor, with the edit
\* panel opened at the right of the element's box.
AreaSelection(lay, element, elements, count) ==
  [selectedElement |-> element, selectedElements |-> elements, selectionType |-> "area",
   elementCount |-> count, showEditPanel |-> TRUE,
   panelPosition |-> [x |-> lay.box[element].right + 10, y |-> lay.box[element].top]]

\* handleDragSelect(elements): the state of HunterMode after the call from the
\* state h.
handleDragSelect(d, lay, h, elements) ==
  LET Meaningful(el) == isMeaningfulElement(d, el)
      meaningful == SelectSeq(elements, Meaningful)
      outermost == getOutermostElements(meaningful)
      ancestor == findCommonAncestor(outermost)
  IN IF Len(meaningful) = 0 THEN h
     ELSE IF Len(outermost) = 1 THEN AreaSelection(lay, outermost[1], NoElements, 1)
     ELSE IF ~isReasonableAncestor(d, lay, ancestor) THEN h
     ELSE AreaSelection(lay, ancestor, outermost, Len(outermost))

(* ------------------------------------------------------------------ *)
(* HunterMode: drag selection on a page                                *)
(* ------------------------------------------------------------------ *)

\* Longest element list the ancestor functions are called with.
MaxSel == 2

\* <body><div><main><div>                               app, main, wrapper
\*   <ul><li>a</li><li>b</li><li>c</li></ul>
\*   <img> <span>a</span> <div> </div> <p>a</p>          the p is not visible
\* </div></main></div><canvas class="hunter-canvas"></body>
HunterPage ==
  El("html", << El("head", <<>>),
     El("body", <<
        El("div", << El("main", << El("div", <<
           El("ul", << El("li", << Txt(<<"a">>) >>), El("li", << Txt(<<"b">>) >>),
                       El("li", << Txt(<<"c">>) >>) >>),
           El("img", <<>>),
           El("span", << Txt(<<"a">>) >>),
           El("div", << Txt(<<" ">>) >>),
           El("p", << Txt(<<"a">>) >>) >>) >>) >>),
        ToolEl("canvas", ".hunter-canvas", <<>>) >>) >>)

Wrapper == <<2, 1, 1, 1>>

Box(left, top, right, bottom) == [left |-> left, top |-> top, right |-> right, bottom |-> bottom]

\* The boxes of the page in a viewport of 100 x 100: the wrapper spans 80 x 60,
\* the list 30 x 20 with items of 30 x 6, the image 20 x 20, the span 4 x 4.
HunterBoxes ==
  [el \in SeqRange(ElemPaths(HunterPage, <<>>)) |->
     CASE el = <<1>> -> Box(0, 0, 0, 0)
       [] el = <<2, 1, 1>> -> Box(0, 0, 100, 80)
       [] el = Wrapper -> Box(0, 0, 80, 60)
       [] el = Wrapper \o <<1>> -> Box(10, 10, 40, 30)
       [] el = Wrapper \o <<1, 1>> -> Box(10, 10, 40, 16)
       [] el = Wrapper \o <<1, 2>> -> Box(10, 17, 40, 23)
       [] el = Wrapper \o <<1, 3>> -> Box(10, 24, 40, 30)
       [] el = Wrapper \o <<2>> -> Box(50, 10, 70, 30)
       [] el = Wrapper \o <<3>> -> Box(72, 10, 76, 14)
       [] el = Wrapper \o <<4>> -> Box(50, 40, 70, 50)
       [] el = Wrapper \o <<5>> -> Box(10, 40, 40, 50)
       [] OTHER -> Box(0, 0, 100, 100)]

\* head is not displayed, the last paragraph of the wrapper is hidden.
HunterLayout ==
  [viewport |-> [width |-> 100, height |-> 100], box |-> HunterBoxes,
   hidden |-> {<<1>>, Wrapper \o <<5>>}]

\* The corners a drag starts and ends at.
DragXs == {0, 8, 60, 78}
DragYs == {0, 8, 32, 100}

DragRects ==
  {[startX |-> x1, startY |-> y1, endX |-> x2, endY |-> y2] :
     x1 \in DragXs, y1 \in DragYs, x2 \in DragXs, y2 \in DragYs}

\* The lists of at most n different elements from the set els.
RECURSIVE Lists(_, _)
Lists(els, n) ==
  IF n = 0 THEN {<<>>}
  ELSE LET shorter == Lists(els, n - 1)
       IN shorter \cup {Append(l, el) : l \in {x \in shorter : Len(x) = n - 1},
                                         el \in els}

\* The lists the ancestor functions can be handed: different elements that
\* findElementsInRect can return.
ElementLists ==
  {l \in Lists(SeqRange(Candidates(HunterPage, HunterLayout)), MaxSel) :
     \A i, j \in 1..Len(l) : i # j => l[i] # l[j]}

\* HunterMode is mounted on the page; an element list is at hand.
InitHunter ==
  /\ page = 0
  /\ dom = HunterPage
  /\ store = <<>>
  /\ origin = <<>>
  /\ \E elements \in ElementLists : last = [op |-> "elements", elements |-> elements]
  /\ hl = NoCall
  /\ started = FALSE
  /\ loaded = Len(HunterPage.ch[2].ch)
  /\ loop = <<>>
  /\ timers = <<>>
  /\ hunter = NoSelection
  /\ layout = HunterLayout
  /\ app = NoApp
  /\ pointer = NoPointer
  /\ records = NoRecords

\* getOutermostElements(elements) on the list at hand.
GetOutermostElements ==
  /\ last.op = "elements"
  /\ last' = [op |-> "getOutermostElements", elements |-> last.elements,
              result |-> getOutermostElements(last.elements)]
  /\ UNCHANGED <<pointer, records, app, dom, page, store, origin, hl, pollVars, hunter, layout>>

\* findCommonAncestor(elements) on the list at hand.
FindCommonAncestor ==
  /\ last.op = "elements"
  /\ last' = [op |-> "findCommonAncestor", elements |-> last.elements,
              result |-> findCommonAncestor(last.elements)]
  /\ UNCHANGED <<pointer, records, app, dom, page, store, origin, hl, pollVars, hunter, layout>>

\* The end of a drag over rect while the canvas is enabled: a rect narrower or
\* lower than 5 is dropped; otherwise findElementsInRect(rect) runs and a
\* non-empty result goes to handleDragSelect.
DragSelect(rect) ==
  /\ ~hunter.showEditPanel
  /\ \E searched \in {~(Max(rect.endX - rect.startX, rect.startX - rect.endX) < 5 \/
                        Max(rect.endY - rect.startY, rect.startY - rect.endY) < 5)} :
     \E found \in {IF searched THEN findElementsInRect(dom, layout, rect) ELSE <<>>} :
       /\ hunter' = IF Len(found) > 0 THEN handleDragSelect(dom, layout, hunter, found)
                    ELSE hunter
       /\ last' = [op |-> "dragSelect", rect |-> rect, searched |-> searched,
                   elements |-> found]
  /\ UNCHANGED <<pointer, records, app, dom, page, store, origin, hl, pollVars, layout>>

\* handleCancel(), from the edit panel.
HandleCancel ==
  /\ hunter.showEditPanel
  /\ hunter' = [hunter EXCEPT !.selectedElement = NoElement, !.selectedElements = NoElements,
                              !.showEditPanel = FALSE, !.selectionType = "single",
                              !.elementCount = 0]
  /\ last' = [op |-> "cancel"]
  /\ UNCHANGED <<pointer, records, app, dom, page, store, origin, hl, pollVars, layout>>

NextHunter ==
  \/ GetOutermostElements
  \/ FindCommonAncestor
  \/ \E rect \in DragRects : DragSelect(rect)
  \/ HandleCancel

SpecHunter == InitHunter /\ [][NextHunter]_vars

(* ------------------------------------------------------------------ *)
(* isReasonableAncestor on a chain of nested elements                  *)
(* ------------------------------------------------------------------ *)

\* Depth of the innermost element of the chain.
ChainDepth == 12

\* n nested div elements around a text.
RECURSIVE Chain(_)
Chain(n) == IF n = 0 THEN << Txt(<<"a">>) >> ELSE << El("div", Chain(n - 1)) >>

\* <body><div><div>...a...</div></div></body>
DeepPage == Page(Chain(ChainDepth))

\* Widths and heights of a box in a viewport of 100 x 100: 0.3, 0.8, 0.81 and
\* 0.9 of the viewport.
BoxSizes == {30, 80, 81, 90}

\* Every div of the chain has the box w x h; html and body fill the viewport.
DeepLayout(w, h) ==
  [viewport |-> [width |-> 100, height |-> 100],
   box |-> [el \in SeqRange(ElemPaths(DeepPage, <<>>)) |->
              IF Len(el) >= 2 THEN Box(0, 0, w, h)
              ELSE IF el = <<1>> THEN Box(0, 0, 0, 0) ELSE Box(0, 0, 100, 100)],
   hidden |-> {<<1>>}]

\* The elements isReasonableAncestor is called with: html, body and the
\* elements under body.
Ancestors == {<<>>} \cup SeqRange(ElemPaths(DeepPage, BodyPath))

\* The chain is laid out and an ancestor is at hand.
InitAncestor ==
  /\ page = 0
  /\ dom = DeepPage
  /\ store = <<>>
  /\ origin = <<>>
  /\ \E ancestor \in Ancestors : last = [op |-> "ancestor", ancestor |-> ancestor]
  /\ hl = NoCall
  /\ started = FALSE
  /\ loaded = Len(DeepPage.ch[2].ch)
  /\ loop = <<>>
  /\ timers = <<>>
  /\ hunter = NoSelection
  /\ \E w \in BoxSizes, h \in BoxSizes : layout = DeepLayout(w, h)
  /\ app = NoApp
  /\ pointer = NoPointer
  /\ records = NoRecords

\* isReasonableAncestor(ancestor) on the ancestor at hand.
IsReasonableAncestor ==
  /\ last.op = "ancestor"
  /\ last' = [op |-> "isReasonableAncestor", ancestor |-> last.ancestor,
              result |-> isReasonableAncestor(dom, layout, last.ancestor)]
  /\ UNCHANGED <<pointer, records, app, dom, page, store, origin, hl, pollVars, hunter, layout>>

NextAncestor == IsReasonableAncestor

SpecAncestor == InitAncestor /\ [][NextAncestor]_vars

(* ------------------------------------------------------------------ *)
(* HunterMode: mousedown, mousemove, mouseup                           *)
(* ------------------------------------------------------------------ *)

\* detectElementAtPosition(x, y): the topmost element at the point that is not
\* part of the tool and is neither body nor html; NoElement when there is none.
\* document.elementsFromPoint lists the boxes at the point topmost first, which
\* for boxes in normal flow is the reverse of document order.
detectElementAtPosition(d, lay, x, y) ==
  LET At(el) == /\ el \notin lay.hidden
                /\ lay.box[el].left <= x /\ x < lay.box[el].right
                /\ lay.box[el].top <= y /\ y < lay.box[el].bottom
                /\ ~InToolUI(d, el)
                /\ el # BodyPath /\ el # <<>>
      at == SelectSeq(ElemPaths(d, <<>>), At)
  IN IF at = <<>> THEN NoElement ELSE at[Len(at)]

\* handleClick(x, y): the state of HunterMode after the call from the state h.
handleClick(d, lay, h, x, y) ==
  LET element == detectElementAtPosition(d, lay, x, y)
  IN IF element = NoElement THEN h
     ELSE [h EXCEPT !.selectedElement = element, !.selectionType = "single",
                    !.elementCount = 1, !.showEditPanel = TRUE,
                    !.panelPosition = [x |-> lay.box[element].right + 10,
                                       y |-> lay.box[element].top]]

\* HunterCanvas.handleMouseUp and its timer, for the rectangle drawn: rectangles
\* under 5 px wide or high are dropped, an empty result selects nothing.
canvasMouseUp(d, lay, h, rect) ==
  LET w == Max(rect.endX - rect.startX, rect.startX - rect.endX)
      ht == Max(rect.endY - rect.startY, rect.startY - rect.endY)
      elements == IF w < 5 \/ ht < 5 THEN <<>> ELSE findElementsInRect(d, lay, rect)
  IN IF Len(elements) > 0 THEN handleDragSelect(d, lay, h, elements) ELSE h

\* The square of the distance between two points.
Distance2(x1, y1, x2, y2) == (x2 - x1) * (x2 - x1) + (y2 - y1) * (y2 - y1)

\* The points of the page the mouse is pressed, moved and released at.
PointerXs == {8, 11, 60}
PointerYs == {8, 12, 32}

\* HunterMode is mounted on the page and nothing is selected.
InitPointer ==
  /\ page = 0
  /\ dom = HunterPage
  /\ store = <<>>
  /\ origin = <<>>
  /\ last = [op |-> "mount"]
  /\ hl = NoCall
  /\ started = FALSE
  /\ loaded = Len(HunterPage.ch[2].ch)
  /\ loop = <<>>
  /\ timers = <<>>
  /\ hunter = NoSelection
  /\ layout = HunterLayout
  /\ app = NoApp
  /\ pointer = NoPointer
  /\ records = NoRecords

pointerFrame == <<records, app, dom, page, store, origin, hl, pollVars, layout>>

\* mousedown on the page, with or without Shift.
MouseDown(x, y, shiftKey) ==
  /\ pointer' = IF hunter.showEditPanel THEN pointer
                ELSE [pointer EXCEPT !.down = TRUE, !.x = x, !.y = y, !.hasMoved = FALSE,
                                     !.shiftKeyOnDown = shiftKey]
  /\ last' = [op |-> "mouseDown", panel |-> hunter.showEditPanel, before |-> hunter]
  /\ UNCHANGED hunter
  /\ UNCHANGED pointerFrame

\* mousemove: the drag starts at 5 px from the mousedown when Shift was held.
MouseMove(x, y) ==
  /\ pointer' = IF /\ pointer.down /\ ~hunter.showEditPanel
                   /\ Distance2(pointer.x, pointer.y, x, y) >= 5 * 5
                   /\ ~pointer.hasMoved /\ pointer.shiftKeyOnDown
                THEN [pointer EXCEPT !.hasMoved = TRUE, !.isDragging = TRUE]
                ELSE pointer
  /\ last' = [op |-> "mouseMove", panel |-> hunter.showEditPanel, before |-> hunter]
  /\ UNCHANGED hunter
  /\ UNCHANGED pointerFrame

\* mouseup on the page: a click when hasMoved is not set, else the end of the
\* rectangle the canvas drew from the mousedown.
MouseUp(x, y) ==
  /\ \E handled \in {pointer.down /\ ~hunter.showEditPanel} :
       /\ hunter' = IF ~handled THEN hunter
                    ELSE IF ~pointer.hasMoved THEN handleClick(dom, layout, hunter, x, y)
                    ELSE canvasMouseUp(dom, layout, hunter,
                           [startX |-> pointer.x, startY |-> pointer.y, endX |-> x, endY |-> y])
       /\ pointer' = IF handled THEN NoPointer ELSE pointer
       /\ last' = [op |-> "mouseUp", panel |-> hunter.showEditPanel, before |-> hunter,
                   down |-> [x |-> pointer.x, y |-> pointer.y], up |-> [x |-> x, y |-> y],
                   clicked |-> handled /\ ~pointer.hasMoved,
                   dragged |-> handled /\ pointer.hasMoved]
  /\ UNCHANGED pointerFrame

NextPointer ==
  \/ \E x \in PointerXs, y \in PointerYs, shiftKey \in BOOLEAN : MouseDown(x, y, shiftKey)
  \/ \E x \in PointerXs, y \in PointerYs : MouseMove(x, y)
  \/ \E x \in PointerXs, y \in PointerYs : MouseUp(x, y)
  \/ HandleCancel

SpecPointer == InitPointer /\ [][NextPointer]_vars

(* ------------------------------------------------------------------ *)
(* hunter-records: handleConfirm of HunterMode, handleDelete of the    *)
(* badges                                                              *)
(* ------------------------------------------------------------------ *)

\* Records kept at most.
MaxRecords == 3

\* setRecords(value) of the hook of component who: the value is written, the
\* hook's state follows, and chrome.storage.onChanged reaches both hooks.
SetRecords(rs, who, value) ==
  [rs EXCEPT !.storage = value, ![who] = value,
             !.inbox = IF rs.storage = value THEN rs.inbox
                       ELSE [hunterMode |-> Append(rs.inbox.hunterMode, value),
                             overlays |-> Append(rs.inbox.overlays, value)]]

\* records.filter((r) => r.id !== recordId)
WithoutRecord(list, recordId) ==
  LET Other(id) == id # recordId IN SelectSeq(list, Other)

\* HunterMode and RecordOverlays are mounted and have read the empty store.
InitRecords ==
  /\ page \in 1..NPages
  /\ dom = SamplePage(page)
  /\ store = <<>>
  /\ origin = <<>>
  /\ last = [op |-> "mount"]
  /\ hl = NoCall
  /\ started = FALSE
  /\ loaded = Len(SamplePage(page).ch[2].ch)
  /\ loop = <<>>
  /\ timers = <<>>
  /\ hunter = NoSelection
  /\ layout = NoLayout
  /\ app = NoApp
  /\ pointer = NoPointer
  /\ records = NoRecords

recordsFrame == <<pointer, hunter, app, dom, page, store, origin, hl, pollVars, layout>>

RoomForRecords ==
  Len(records.inbox.hunterMode) < MaxInbox /\ Len(records.inbox.overlays) < MaxInbox

\* handleConfirm(userNote) of HunterMode: the record gets the id
\* records.length + 1 and is appended to the list the hook holds.
HandleConfirm ==
  /\ RoomForRecords
  /\ Len(records.hunterMode) < MaxRecords
  /\ \E id \in {Len(records.hunterMode) + 1} :
       /\ records' = SetRecords(records, "hunterMode", Append(records.hunterMode, id))
       /\ last' = [op |-> "confirm", id |-> id, before |-> records.storage]
  /\ UNCHANGED recordsFrame

\* handleDelete(recordId) of RecordOverlays, from the badge of a record it shows.
HandleDelete(recordId) ==
  /\ RoomForRecords
  /\ \E i \in 1..Len(records.overlays) : records.overlays[i] = recordId
  /\ records' = SetRecords(records, "overlays", WithoutRecord(records.overlays, recordId))
  /\ last' = [op |-> "delete", id |-> recordId, before |-> records.storage]
  /\ UNCHANGED recordsFrame

\* handleStorageChange of the hook of component who.
HearRecords(who) ==
  /\ records.inbox[who] # <<>>
  /\ records' = [records EXCEPT ![who] = Head(records.inbox[who]),
                                !.inbox[who] = Tail(records.inbox[who])]
  /\ last' = [op |-> "hearRecords", who |-> who]
  /\ UNCHANGED recordsFrame

NextRecords ==
  \/ HandleConfirm
  \/ \E recordId \in 1..MaxRecords : HandleDelete(recordId)
  \/ \E who \in {"hunterMode", "overlays"} : HearRecords(who)

SpecRecords == InitRecords /\ [][NextRecords]_vars

(* ------------------------------------------------------------------ *)
(* findTextNodeAtOffset on the nodes of the sample pages               *)
(* ------------------------------------------------------------------ *)

\* Largest target offset tried.
MaxTarget == 5

InitOffset ==
  /\ page \in 1..4
  /\ dom = SamplePage(page)
  /\ store = <<>>
  /\ origin = <<>>
  /\ \E root \in SeqRange(NodePaths(SamplePage(page), <<>>)), target \in 0..MaxTarget :
       last = [op |-> "offset", root |-> root, target |-> target]
  /\ hl = NoCall
  /\ started = FALSE
  /\ loaded = Len(SamplePage(page).ch[2].ch)
  /\ loop = <<>>
  /\ timers = <<>>
  /\ hunter = NoSelection
  /\ layout = NoLayout
  /\ app = NoApp
  /\ pointer = NoPointer
  /\ records = NoRecords

\* findTextNodeAtOffset(root, targetOffset) on the root and target at hand.
FindTextNodeAtOffset ==
  /\ last.op = "offset"
  /\ last' = [op |-> "findTextNodeAtOffset", root |-> last.root, target |-> last.target,
              result |-> findTextNodeAtOffset(dom, last.root, last.target)]
  /\ UNCHANGED <<pointer, records, app, dom, page, store, origin, hl, pollVars, hunter, layout>>

NextOffset == FindTextNodeAtOffset

SpecOffset == InitOffset /\ [][NextOffset]_vars

(* ------------------------------------------------------------------ *)
(* The mode: useMode in the content script and in the console          *)
(* ------------------------------------------------------------------ *)

\* const modes: Mode[] = ['OFF', 'GOGO', 'HUNTER']
Modes == <<"OFF", "GOGO", "HUNTER">>

\* modes[(modes.indexOf(currentMode) + 1) % modes.length]
NextMode(currentMode) == Modes[((IndexOf(Modes, <<currentMode>>) + 1) % Len(Modes)) + 1]

\* A render of ContentScript that does not wait for the mode to be loaded.
RenderUnloaded(cs) ==
  IF cs.mode = "GOGO" THEN {"GOGOMode"}
  ELSE IF cs.mode = "HUNTER" THEN {"RecordOverlays", "HunterMode"}
  ELSE {}

\* The mode components ContentScript renders from the state cs of its hook.
Render(cs) ==
  (IF cs.loaded /\ cs.mode = "GOGO" THEN {"GOGOMode"} ELSE {}) \cup
  (IF cs.loaded /\ cs.mode = "HUNTER" THEN {"RecordOverlays", "HunterMode"} ELSE {})

\* The content script's hook takes the state cs: ContentScript renders again.
WithContentScript(a, cs) == [a EXCEPT !.cs = cs, !.mounted = Render(cs)]

\* setValue(value) of the hook of script who ("cs" or "con"): the value is
\* written, the hook's state follows, and chrome.storage.onChanged reaches the
\* listeners of both scripts when the stored value changed.
SetMode(a, who, value) ==
  LET heard == IF a.storage = value THEN a.inbox
               ELSE [cs |-> Append(a.inbox.cs, value), con |-> Append(a.inbox.con, value)]
      written == [a EXCEPT !.storage = value, !.inbox = heard]
  IN IF who = "cs" THEN WithContentScript(written, [written.cs EXCEPT !.mode = value])
     ELSE [written EXCEPT !.con.mode = value]

\* switchMode(newMode) of script who: nothing when the hook already shows it.
switchMode(a, who, newMode) ==
  IF newMode = a[who].mode THEN a ELSE SetMode(a, who, newMode)

\* The scripts are injected into a page that has stored annotations or has
\* none; a mode may have been stored before.
InitMode ==
  /\ page \in 1..NPages
  /\ dom = SamplePage(page)
  /\ store = <<>>
  /\ origin = <<>>
  /\ last = [op |-> "inject"]
  /\ hl = NoCall
  /\ started = FALSE
  /\ loaded = Len(SamplePage(page).ch[2].ch)
  /\ loop = <<>>
  /\ timers = <<>>
  /\ hunter = NoSelection
  /\ layout = NoLayout
  /\ \E stored \in {"NONE", "OFF", "GOGO", "HUNTER"}, has \in BOOLEAN :
       app = [NoApp EXCEPT !.storage = stored, !.hasAnnotations = has]
  /\ pointer = NoPointer
  /\ records = NoRecords

modeFrame == <<pointer, records, dom, page, store, origin, hl, pollVars, hunter, layout>>

\* What the last activation of the switch-mode button started from (history).
NoToggle == [from |-> "NONE", settled |-> FALSE]
Toggled == IF "toggled" \in DOMAIN last THEN last.toggled ELSE NoToggle

\* Every hook is loaded, no change event is pending, and both scripts show
\* the stored mode.
Settled(a) ==
  /\ a.cs.loaded /\ a.con.loaded /\ a.annotationsLoaded
  /\ a.inbox.cs = <<>> /\ a.inbox.con = <<>>
  /\ a.cs.mode = a.storage /\ a.con.mode = a.storage

\* The smart mode effect without its look at the annotations of the page.
ShouldAutoSwitchAnyPage(a) ==
  /\ a.cs.loaded /\ a.annotationsLoaded
  /\ a.cs.mode = "OFF"

\* The condition of the smart mode effect: both hooks are loaded, the mode is
\* OFF and some stored annotation has the id of this page.
ShouldAutoSwitch(a) ==
  /\ a.cs.loaded /\ a.annotationsLoaded
  /\ a.cs.mode = "OFF" /\ a.hasAnnotations

\* The first read of useStorage('mode') in script who: a stored value replaces
\* the default, and the hook is loaded.
LoadMode(who) ==
  /\ ~app[who].loaded
  /\ \E read \in {[mode |-> IF app.storage = "NONE" THEN app[who].mode ELSE app.storage,
                   loaded |-> TRUE]} :
       app' = IF who = "cs" THEN WithContentScript(app, read) ELSE [app EXCEPT !.con = read]
  /\ last' = [op |-> "loadMode", who |-> who, toggled |-> Toggled]
  /\ UNCHANGED modeFrame

\* The first read of useStorage('annotations') in the content script.
LoadAnnotations ==
  /\ ~app.annotationsLoaded
  /\ app' = [app EXCEPT !.annotationsLoaded = TRUE]
  /\ last' = [op |-> "loadAnnotations", toggled |-> Toggled]
  /\ UNCHANGED modeFrame

\* handleStorageChange in script who: setStoredValue(changes[key].newValue).
\* React runs the effects of the last render before it renders the component
\* again, so the content script's smart mode effect, when due, comes first.
HearModeChange(who) ==
  /\ app.inbox[who] # <<>>
  /\ who = "cs" => ~ShouldAutoSwitch(app)
  /\ \E rest \in {[app EXCEPT !.inbox[who] = Tail(app.inbox[who])]} :
       app' = IF who = "cs"
              THEN WithContentScript(rest, [rest.cs EXCEPT !.mode = Head(app.inbox.cs)])
              ELSE [rest EXCEPT !.con.mode = Head(app.inbox.con)]
  /\ last' = [op |-> "hearModeChange", who |-> who, toggled |-> Toggled]
  /\ UNCHANGED modeFrame

\* handleToggleMode of the console: onSwitch(nextMode) from the mode it shows.
ToggleMode ==
  /\ Len(app.inbox.cs) < MaxInbox /\ Len(app.inbox.con) < MaxInbox
  /\ app' = switchMode(app, "con", NextMode(app.con.mode))
  /\ last' = [op |-> "toggleMode", shown |-> app.con.mode,
              toggled |-> [from |-> app.storage, settled |-> Settled(app)]]
  /\ UNCHANGED modeFrame

\* The smart mode effect of ContentScript: switchMode('GOGO').
AutoSwitch ==
  /\ ShouldAutoSwitch(app)
  /\ app' = switchMode(app, "cs", "GOGO")
  /\ last' = [op |-> "autoSwitch", toggled |-> Toggled,
              was |-> [mode |-> app.cs.mode, loaded |-> app.cs.loaded /\ app.annotationsLoaded,
                       has |-> app.hasAnnotations]]
  /\ UNCHANGED modeFrame

NextModeStep ==
  \/ \E who \in {"cs", "con"} : LoadMode(who)
  \/ LoadAnnotations
  \/ \E who \in {"cs", "con"} : HearModeChange(who)
  \/ ToggleMode
  \/ AutoSwitch

SpecMode == InitMode /\ [][NextModeStep]_vars

\* React runs a pending effect, the event loop delivers a pending storage event
\* and a started read of chrome.storage completes; nobody has to press a button.
FairMode ==
  /\ WF_vars(AutoSwitch)
  /\ WF_vars(LoadAnnotations)
  /\ \A who \in {"cs", "con"} : WF_vars(LoadMode(who)) /\ WF_vars(HearModeChange(who))

SpecModeLive == InitMode /\ [][NextModeStep]_vars /\ FairMode

(* ------------------------------------------------------------------ *)
(* GOGOMode: the restoration loops and the unmount                     *)
(* ------------------------------------------------------------------ *)

\* The content script shows GOGO on a page with stored annotations: GOGOMode is
\* mounted, its restore effect has set the 100 ms timer of restoreWhenReady.
GOGOMounted ==
  WithContentScript([NoApp EXCEPT !.storage = "GOGO", !.con = [mode |-> "GOGO", loaded |-> TRUE],
                                  !.hasAnnotations = TRUE, !.annotationsLoaded = TRUE],
                    [mode |-> "GOGO", loaded |-> TRUE])

InitTeardown ==
  /\ page \in 1..NPages
  /\ dom = Page(<<>>)
  /\ store \in PageAnnotations(page)
  /\ origin = <<>>
  /\ last = [op |-> "mount"]
  /\ hl = NoCall
  /\ started = FALSE
  /\ loaded = 0
  /\ loop = [i \in 1..NLoop |-> IdleLoop]
  /\ timers = <<>>
  /\ hunter = NoSelection
  /\ layout = NoLayout
  /\ app = GOGOMounted
  /\ pointer = NoPointer
  /\ records = NoRecords

\* The content script hears that the mode is now HUNTER: GOGOMode unmounts. The
\* cleanup of its mount effect calls clearAllHighlights(), the cleanup of its
\* restore effect removes the DOMContentLoaded listener; no timer is cleared.
UnmountGOGO ==
  /\ "GOGOMode" \in app.mounted
  /\ app' = WithContentScript([app EXCEPT !.storage = "HUNTER", !.con.mode = "HUNTER"],
                              [mode |-> "HUNTER", loaded |-> TRUE])
  /\ dom' = clearAllHighlights(dom)
  /\ last' = [op |-> "unmountGOGO"]
  /\ UNCHANGED <<pointer, records, hunter, layout, page, store, origin, hl, pollVars>>

NextTeardown ==
  \/ RestoreWhenReady
  \/ Tick
  \/ LoadContent
  \/ UnmountGOGO

SpecTeardown == InitTeardown /\ [][NextTeardown]_vars

(* ------------------------------------------------------------------ *)
(* The stored annotations: GOGOMode and the side panel write them      *)
(* ------------------------------------------------------------------ *)

\* An annotation record, as far as its id and its suggestion.
Note(id, suggestion) == [id |-> id, suggestion |-> suggestion]

NoteIds(list) == {list[k].id : k \in 1..Len(list)}

\* setAnnotations(value) of the hook of who ("gogo": GOGOMode, "panel": the side
\* panel): the value is written, the hook's state follows, and
\* chrome.storage.onChanged reaches both hooks.
SetAnnotations(a, stored, who, value) ==
  [a EXCEPT !.annotations[who] = value,
            !.annotations.inbox =
               IF stored = value THEN @
               ELSE [gogo |-> Append(@.gogo, value), panel |-> Append(@.panel, value)]]

\* annotations.filter((a) => a.id !== id)
WithoutNote(list, id) == LET Other(n) == n.id # id IN SelectSeq(list, Other)

\* annotations.map((a) => a.id === updated.id ? updated : a)
WithNote(list, updated) ==
  [k \in 1..Len(list) |-> IF list[k].id = updated.id THEN updated ELSE list[k]]

\* GOGOMode and the side panel are open on a page without annotations; both
\* hooks have read the empty store.
InitStore ==
  /\ page \in 1..NPages
  /\ dom = SamplePage(page)
  /\ store = <<>>
  /\ origin = <<>>
  /\ last = [op |-> "open", live |-> {}, made |-> 0]
  /\ hl = NoCall
  /\ started = FALSE
  /\ loaded = Len(SamplePage(page).ch[2].ch)
  /\ loop = <<>>
  /\ timers = <<>>
  /\ hunter = NoSelection
  /\ layout = NoLayout
  /\ app = GOGOMounted
  /\ pointer = NoPointer
  /\ records = NoRecords

storeFrame == <<pointer, records, hunter, layout, dom, page, origin, hl, pollVars>>

RoomForAnnotations ==
  /\ Len(app.annotations.inbox.gogo) < MaxInbox
  /\ Len(app.annotations.inbox.panel) < MaxInbox

\* All of this page's hooks write through here: value replaces what is stored.
\* History: live, the ids written by handleAnnotate and neither deleted nor
\* cleared since; made, the number of annotations made.
WriteAnnotations(who, value, op, live, made) ==
  /\ RoomForAnnotations
  /\ store' = value
  /\ app' = SetAnnotations(app, store, who, value)
  /\ last' = [op |-> op, live |-> live, made |-> made]
  /\ UNCHANGED storeFrame

\* handleAnnotate(type) of GOGOMode: setAnnotations([...annotations, annotation]).
HandleAnnotate ==
  /\ last.made < MaxNotes
  /\ \E id \in {last.made + 1} :
       WriteAnnotations("gogo", Append(app.annotations.gogo, Note(id, "")), "annotate",
                        last.live \cup {id}, id)

\* handleDeleteAnnotation() of GOGOMode, for an annotation it shows.
HandleDeleteAnnotation(id) ==
  /\ id \in NoteIds(app.annotations.gogo)
  /\ WriteAnnotations("gogo", WithoutNote(app.annotations.gogo, id), "deleteAnnotation",
                      last.live \ {id}, last.made)

\* handleDelete(id) of the side panel, for an annotation it lists.
PanelDelete(id) ==
  /\ id \in NoteIds(app.annotations.panel)
  /\ WriteAnnotations("panel", WithoutNote(app.annotations.panel, id), "panelDelete",
                      last.live \ {id}, last.made)

\* onUpdate(updated) of an item of the side panel: the suggestion is edited.
PanelUpdate(id) ==
  /\ id \in NoteIds(app.annotations.panel)
  /\ WriteAnnotations("panel", WithNote(app.annotations.panel, Note(id, "edited")),
                      "panelUpdate", last.live, last.made)

\* handleClearAll() of the side panel: the annotations of other pages stay; all
\* annotations here are of the current page.
PanelClearAll ==
  /\ app.annotations.panel # <<>>
  /\ WriteAnnotations("panel", <<>>, "panelClearAll", {}, last.made)

\* handleStorageChange of the hook of who.
HearAnnotations(who) ==
  /\ app.annotations.inbox[who] # <<>>
  /\ app' = [app EXCEPT !.annotations[who] = Head(app.annotations.inbox[who]),
                        !.annotations.inbox[who] = Tail(app.annotations.inbox[who])]
  /\ last' = [last EXCEPT !.op = "hearAnnotations"]
  /\ UNCHANGED store
  /\ UNCHANGED storeFrame

NextStore ==
  \/ HandleAnnotate
  \/ \E id \in 1..MaxNotes : HandleDeleteAnnotation(id)
  \/ \E id \in 1..MaxNotes : PanelDelete(id)
  \/ \E id \in 1..MaxNotes : PanelUpdate(id)
  \/ PanelClearAll
  \/ \E who \in {"gogo", "panel"} : HearAnnotations(who)

SpecStore == InitStore /\ [][NextStore]_vars

(* ------------------------------------------------------------------ *)
(* Properties                                                          *)
(* ------------------------------------------------------------------ *)

\* The text of the markers carrying id, concatenated in document order (a marker
\* inside another marker of the same id is counted with the outer one).
RECURSIVE MarkText(_, _)
MarkText(n, id) ==
  IF IsText(n) THEN <<>>
  ELSE IF n.gid = id THEN TextContent(n)
  ELSE Flatten([i \in 1..Len(n.ch) |-> MarkText(n.ch[i], id)])

\* The stored annotation with the given id.
Stored(id) == store[id]

\* C1 (as stated). Round-trip anchoring: restoreHighlight called with the stored
\* descriptor of an annotation, on the very document createLocationInfo read it
\* from (no marker with that id present), returns true and the text of the
\* created markers, in document order, is the original range's text.
C1_RoundTrip ==
  (last.op = "restore" /\ last.stored /\ last.fresh)
    => /\ last.ok
       /\ MarkText(dom, last.id) = RangeToString(origin[last.id].doc, origin[last.id].range)

\* C2. Idempotent restoration: a restoreHighlight call that finds a marker with
\* the target id returns true and leaves the document as it is, and a call that
\* returns true leaves such a marker behind, so no later call adds a second set.
C2_IdempotentRestore ==
  last.op = "restore"
    => /\ last.had => (last.ok /\ ~last.changed)
       /\ last.ok => HasMarkElement(dom, last.id)

C2_Witness ==
  /\ last.op = "restore" /\ last.had /\ last.ok
  /\ Len(MarkPaths(dom, last.id)) = 2

\* The slice of text a tuple of getTextNodesInRange names.
TupleText(d, t) == SubSeq(NodeAt(d, t.node).data, t.startOffset + 1, t.endOffset)

\* The Text nodes of which range r selects at least one character, document order.
SpannedTextNodes(d, r) ==
  LET Spanned(p) == ClipStart(d, r, p) < ClipEnd(d, r, p)
  IN SelectSeq(TextPaths(d, <<>>), Spanned)

\* What C3 asks of getTextNodesInRange for range r of document d.
FragmentCoverage(d, r) ==
  LET ts == getTextNodesInRange(d, r)
      spanned == SpannedTextNodes(d, r)
  IN /\ Len(ts) = Len(spanned)
     /\ \A k \in 1..Len(ts) :
          /\ ts[k].node = spanned[k]
          /\ ts[k].startOffset < ts[k].endOffset
          /\ ts[k].startOffset = ClipStart(d, r, spanned[k])
          /\ ts[k].endOffset = ClipEnd(d, r, spanned[k])
     /\ Flatten([k \in 1..Len(ts) |-> TupleText(d, ts[k])]) = RangeToString(d, r)

\* C3 (as stated). Fragment coverage: for every range handleAnnotate highlighted,
\* getTextNodesInRange returned, in document order, one non-empty clipped tuple per
\* Text node the range spans, and the tuples' text is range.toString().
C3_FragmentCoverage ==
  \A i \in 1..Len(origin) : FragmentCoverage(origin[i].doc, origin[i].range)

\* C4. Split-path markers: after a highlightRange(range, type, id) call that found
\* fragments, the elements carrying the id are <mark> elements with the type's
\* class, one per fragment, each holding one Text node with the fragment's slice of
\* its Text node, and their text in document order is the text the range selected
\* before the call.
C4_SplitPathMarkers ==
  LET ts == getTextNodesInRange(hl.doc, hl.range)
      ms == MarkPaths(dom, hl.id)
  IN (hl.called /\ Len(ts) > 0) =>
       /\ Len(ms) = Len(ts)
       /\ \A k \in 1..Len(ms) :
            LET m == NodeAt(dom, ms[k])
            IN /\ m.tag = "mark" /\ m.gid = hl.id /\ m.cls = hl.type
               /\ Len(m.ch) = 1 /\ IsText(m.ch[1])
               /\ m.ch[1].data = TupleText(hl.doc, ts[k])
       /\ MarkText(dom, hl.id) = RangeToString(hl.doc, hl.range)

\* The analogue of 'Hello World' over <b>Hello</b> World: the whole of
\* <p>ab<b>a</b></p> was annotated and two markers share the id.
C4_Witness ==
  /\ last.op = "annotate" /\ last.ok /\ page = 1
  /\ Len(getTextNodesInRange(hl.doc, hl.range)) = 2
  /\ Len(MarkPaths(dom, 1)) = 2
  /\ MarkText(dom, 1) = <<"a", "b", "a">>

\* The element tree of n without its Text nodes and without the elements carrying
\* data-gogo-id = id (and what they contain).
RECURSIVE Skeleton(_, _)
Skeleton(n, id) ==
  LET Kept(i) == ~IsText(n.ch[i]) /\ n.ch[i].gid # id
      kept == SelectSeq([i \in 1..Len(n.ch) |-> i], Kept)
  IN [tag |-> n.tag, gid |-> n.gid, cls |-> n.cls,
      ch |-> [k \in 1..Len(kept) |-> Skeleton(n.ch[kept[k]], id)]]

\* C5. Structure preservation: after a highlightRange call that found a fragment,
\* the tree of the elements that were in the document before the call is as it
\* was (no element has moved into a marker), and every marker the call inserted
\* holds only text.
C5_StructurePreserved ==
  LET ms == MarkPaths(dom, hl.id)
  IN (hl.called /\ Len(getTextNodesInRange(hl.doc, hl.range)) > 0) =>
       /\ Skeleton(dom, hl.id) = Skeleton(hl.doc, hl.id)
       /\ \A k \in 1..Len(ms) :
            \A c \in 1..Len(NodeAt(dom, ms[k]).ch) : IsText(NodeAt(dom, ms[k]).ch[c])

\* A highlight across <p>ab<b>a</b></p> from inside "ab" into <b>: the <b> element
\* is still a child of <p>, with a marker inside it.
C5_Witness ==
  /\ last.op = "annotate" /\ last.ok /\ last.changed /\ page = 1
  /\ hl.range.sc = <<2, 1, 1>> /\ hl.range.so = 1
  /\ NodeAt(dom, <<2, 1>>).tag = "p"
  /\ \E i \in 1..Len(NodeAt(dom, <<2, 1>>).ch) :
       /\ NodeAt(dom, <<2, 1, i>>).tag = "b"
       /\ \E j \in 1..Len(NodeAt(dom, <<2, 1, i>>).ch) : NodeAt(dom, <<2, 1, i, j>>).gid = 1

\* C6. Removal completeness: after removeHighlight(id) no element carries
\* data-gogo-id = id, and the body text is what it was before the highlight with
\* that id was created.
C6_RemovalComplete ==
  last.op = "remove"
    => /\ ~HasMark(dom, last.id)
       /\ last.id <= Len(origin) => BodyText(dom) = BodyText(origin[last.id].doc)

C6_Witness ==
  /\ last.op = "remove" /\ last.had /\ last.changed
  /\ ~HasMark(dom, last.id)
  /\ BodyText(dom) = BodyText(origin[last.id].doc)

\* C7 (as stated). Resolver fall-through: restoreHighlight reports failure only
\* when the body text does not contain the exact quote.
C7_FailsOnlyWithoutQuote ==
  (last.op = "restore" /\ ~last.ok)
    => ~Includes(BodyText(dom), Stored(last.id).textQuote.exact)

\* C8. A restoreHighlight call that returns false has not changed the document,
\* and no marker with the id is in it.
C8_FailureLeavesDocument ==
  (last.op = "restore" /\ ~last.ok) => (~last.changed /\ ~HasMark(dom, last.id))

C8_Witness ==
  last.op = "restore" /\ ~last.ok /\ dom = SamplePage(page) /\ Len(store) = 1

\* C9. Bounded restoration polling: a loop has a timer pending only while no run
\* of it found the quote, it was rescheduled at most MAX_RETRIES times and made at
\* most MAX_RETRIES + 1 runs in all (so it ends), it called restoreHighlight at
\* most once, and a loop that gave up used its whole budget, never called
\* restoreHighlight, has no timer left and left no marker.
C9_BoundedPolling ==
  \A i \in 1..Len(loop) :
    /\ loop[i].retryCount <= MAX_RETRIES
    /\ loop[i].checks <= MAX_RETRIES + 1
    /\ loop[i].calls <= 1
    /\ loop[i].pc = "waiting" => (~loop[i].seen /\ loop[i].calls = 0)
    /\ loop[i].pc \in {"restored", "failed"} => (loop[i].seen /\ loop[i].calls = 1)
    /\ (\E k \in 1..Len(timers) : timers[k].ann = i) => loop[i].pc = "waiting"
    /\ loop[i].pc = "timeout" =>
         /\ loop[i].retryCount = MAX_RETRIES /\ loop[i].checks = MAX_RETRIES + 1
         /\ ~loop[i].seen /\ loop[i].calls = 0
         /\ ~HasMark(dom, store[i].id)

\* The content never rendered: both loops gave up after 20 reschedules.
C9_Witness ==
  /\ started /\ loaded = 0 /\ timers = <<>>
  /\ \A i \in 1..Len(loop) : loop[i].pc = "timeout" /\ loop[i].retryCount = MAX_RETRIES
  /\ AllMarkPaths(dom) = <<>>

HasNestedMarks(d) ==
  \E i, j \in 1..Len(AllMarkPaths(d)) :
    i # j /\ IsPrefix(AllMarkPaths(d)[i], AllMarkPaths(d)[j])

\* C11. After clearAllHighlights(), run by the CLEAR_ALL_ANNOTATIONS message or by
\* the unmount of GOGOMode, no element carries data-gogo-id and the body text is
\* what it was before the call.
C11_ClearAllComplete ==
  [][last'.op \in {"clear", "unmount"} =>
       (AllMarkPaths(dom') = <<>> /\ BodyText(dom') = BodyText(dom))]_vars

\* The unmount found markers of two ids, two fragments of one id and a marker
\* inside another marker; none is left.
C11_Witness ==
  /\ last.op = "unmount"
  /\ HasMark(last.before, 1) /\ HasMark(last.before, 2)
  /\ \E id \in 1..NIds : Len(MarkPaths(last.before, id)) >= 2
  /\ HasNestedMarks(last.before)
  /\ AllMarkPaths(dom) = <<>>

\* C12 (as stated). No exception escapes highlightRange, removeHighlight,
\* clearAllHighlights or restoreHighlight, whatever they are called with.
C12_NoExceptionEscapes ==
  last.op = "entry" => ~last.threw

\* C13 (as stated). In highlightRange a wrap that throws is skipped and every
\* other fragment is still wrapped; the call yields a marker when at least one
\* fragment was wrapped, and runs the legacy whole-range wrap when none was.
C13_BestEffortWrapping ==
  last.op = "wrap" =>
    /\ ~last.legacy => last.marks = last.fragments - last.thrown
    /\ last.marks >= 1 => last.returned
    /\ last.marks = 0 => last.legacy

\* C14 (as stated). After handleAnnotate, whatever became of the location info,
\* of the highlight and of the storage write, markers with the new id are in the
\* document if and only if a record with that id was written to the store.
C14_AtomicAnnotate ==
  last.op = "handleAnnotate" =>
    (HasMark(dom, last.id) <=> \E i \in 1..Len(store) : store[i].id = last.id)

\* The element generateXPath names for the node at path: the node itself, or
\* the parent element of a Text node.
NamedElement(d, path) ==
  IF IsText(NodeAt(d, path)) THEN SubSeq(path, 1, Len(path) - 1) ELSE path

\* One step tag[k] per element from the html element down to the element at
\* path, root first, k the position among the parent's element children.
StepsFromRoot(d, path) ==
  << [tag |-> "html", index |-> 1] >> \o
  [k \in 1..Len(path) |->
     [tag |-> NodeAt(d, SubSeq(path, 1, k)).tag, index |-> SiblingIndex(d, SubSeq(path, 1, k))]]

\* C15 (as stated). generateXPath(node) returns the steps of the element it names,
\* from the document root element (html) down to that element.
C15_XPathFromRoot ==
  last.op = "generateXPath" => last.xpath = StepsFromRoot(dom, NamedElement(dom, last.node))

\* The characters of text before and from the character position off.
Preceding(text, off) == SubSeq(text, 1, Min(off, Len(text)))
Following(text, off) == SubSeq(text, Min(off, Len(text)) + 1, Len(text))

\* The last and the first n characters of s, all of s when it is shorter.
LastChars(s, n) == SubSeq(s, Len(s) - Min(n, Len(s)) + 1, Len(s))
FirstChars(s, n) == SubSeq(s, 1, Min(n, Len(s)))

\* C16. createTextQuote(range) returns exact = range.toString(), prefix = the at
\* most 32 characters of the start container's text content right before
\* startOffset and suffix = the at most 32 characters of the end container's text
\* content right after endOffset; each is shorter than 32 only when the container
\* has fewer characters on that side.
C16_TextQuoteContext ==
  last.op = "createTextQuote" =>
    LET r == last.range
        startText == TextContent(NodeAt(dom, r.sc))
        endText == TextContent(NodeAt(dom, r.ec))
    IN /\ last.quote.exact = RangeToString(dom, r)
       /\ last.quote.prefix = LastChars(Preceding(startText, r.so), 32)
       /\ last.quote.suffix = FirstChars(Following(endText, r.eo), 32)
       /\ Len(last.quote.prefix) = Min(32, Len(Preceding(startText, r.so)))
       /\ Len(last.quote.suffix) = Min(32, Len(Following(endText, r.eo)))

\* Both contexts are cut to 32 characters: more than 32 characters precede the
\* start and more than 32 follow the end, in one Text node.
C16_Witness ==
  /\ last.op = "createTextQuote"
  /\ IsText(NodeAt(dom, last.range.sc)) /\ last.range.sc = last.range.ec
  /\ last.range.so > 32
  /\ Len(NodeAt(dom, last.range.ec).data) - last.range.eo > 32
  /\ Len(last.quote.prefix) = 32 /\ Len(last.quote.suffix) = 32
  /\ last.quote.exact # <<>>

\* a is an ancestor of b, and not b itself.
ProperAncestor(a, b) == Len(a) < Len(b) /\ SubSeq(b, 1, Len(a)) = a

\* No member of the list is an ancestor of another member.
NoNesting(elements) ==
  \A i, j \in 1..Len(elements) : ~ProperAncestor(elements[i], elements[j])

\* C17. getOutermostElements(elements) returns, in input order, exactly the
\* elements that no other element of the input contains, so no member of the
\* result is an ancestor of another; the group handleDragSelect stores has no
\* member that is an ancestor of another.
C17_ContainmentDedup ==
  /\ last.op = "getOutermostElements" =>
       LET Outer(el) == \A i \in 1..Len(last.elements) : ~ProperAncestor(last.elements[i], el)
       IN /\ last.result = SelectSeq(last.elements, Outer)
          /\ NoNesting(last.result)
  /\ hunter.selectedElements # NoElements => NoNesting(hunter.selectedElements)

\* A drag found a list and its items next to an image; the group stored is the
\* list and the image, the items are dropped.
C17_Witness ==
  /\ last.op = "dragSelect"
  /\ hunter.selectedElements # NoElements
  /\ Len(hunter.selectedElements) >= 2
  /\ Len(last.elements) > Len(hunter.selectedElements)
  /\ ~NoNesting(last.elements)

VisibleElements ==
  {el \in SeqRange(ElemPaths(dom, <<>>)) : el \notin layout.hidden /\ ~InToolUI(dom, el)}

\* The box lies fully in the selection, or at least half of its area does and
\* its area is at most 3 times the area of the selection.
InsideOrOverlapping(bounds, sel) ==
  \/ /\ bounds.left >= sel.left /\ bounds.right <= sel.right
     /\ bounds.top >= sel.top /\ bounds.bottom <= sel.bottom
  \/ /\ Width(bounds) * Height(bounds) > 0
     /\ 2 * IntersectArea(bounds, sel) >= Width(bounds) * Height(bounds)
     /\ Width(bounds) * Height(bounds) <= 3 * Width(sel) * Height(sel)

C19_ReasonableAncestor ==
  last.op = "isReasonableAncestor" =>
    LET a == last.ancestor
        depth == Len(a) - Len(BodyPath)
        w == Width(layout.box[a])
        h == Height(layout.box[a])
        rejected == \/ a = <<>> \/ a = BodyPath
                    \/ depth < 3 \/ depth > 10
                    \/ 10 * w > 8 * layout.viewport.width
                    \/ 10 * h > 8 * layout.viewport.height
    IN /\ last.result = ~rejected
       /\ 100 * w = 90 * layout.viewport.width => ~last.result
       /\ depth = 2 => ~last.result
       /\ (depth = 5 /\ 100 * w = 30 * layout.viewport.width
             /\ 10 * h <= 8 * layout.viewport.height) => last.result

\* An ancestor at depth 5 with width ratio 0.3 and height ratio 0.8 is accepted.
C19_Witness ==
  /\ last.op = "isReasonableAncestor"
  /\ Len(last.ancestor) - Len(BodyPath) = 5
  /\ Width(layout.box[last.ancestor]) = 30
  /\ Height(layout.box[last.ancestor]) = 80
  /\ last.result

\* C21. At most one of GOGOMode and HunterMode is mounted; GOGOMode only while
\* the loaded mode is GOGO, HunterMode only while it is HUNTER, neither while the
\* mode is OFF or not yet loaded.
C21_ModeExclusivity ==
  /\ ~({"GOGOMode", "HunterMode"} \subseteq app.mounted)
  /\ "GOGOMode" \in app.mounted => (app.cs.loaded /\ app.cs.mode = "GOGO")
  /\ "HunterMode" \in app.mounted => (app.cs.loaded /\ app.cs.mode = "HUNTER")
  /\ (~app.cs.loaded \/ app.cs.mode = "OFF") => app.mounted \cap {"GOGOMode", "HunterMode"} = {}

\* HunterMode is mounted after the console switched from GOGO to HUNTER and the
\* content script heard of it.
C21_Witness ==
  /\ last.op = "hearModeChange" /\ last.who = "cs"
  /\ app.mounted = {"RecordOverlays", "HunterMode"}
  /\ app.storage = "HUNTER"

\* C22. Once the switch-mode button was activated, the mode is the successor, in
\* the cycle OFF -> GOGO -> HUNTER -> OFF, of the mode the activation started
\* from: a toggle from HUNTER leaves the mode OFF. Stated for activations made
\* while both scripts showed the stored mode and nothing was pending.
C22_ToggleCycle ==
  Toggled.settled => app.storage = NextMode(Toggled.from)

\* C25. The content script switches to GOGO by itself only when mode and
\* annotations are loaded, the mode is OFF and the page has a stored annotation,
\* never when the mode is GOGO or HUNTER or the page has none; and whenever that
\* condition holds the mode of the content script becomes GOGO.
C25_AutoSwitchOnlyWhenDue ==
  last.op = "autoSwitch" =>
    /\ last.was.loaded /\ last.was.mode = "OFF" /\ last.was.has
    /\ app.cs.mode = "GOGO" /\ app.storage = "GOGO"

C23_XPathRoundTrip ==
  last.op = "locateGenerated" =>
    last.result = [found |-> TRUE, path |-> last.node]

\* The number of characters in the Text nodes tps[1..i-1] of d.
LengthBefore(d, tps, i) ==
  Len(Flatten([k \in 1..(i - 1) |-> NodeAt(d, tps[k]).data]))

\* C24. findTextNodeAtOffset(root, target) returns the first Text node under root,
\* in document order, whose span [start, start + length] of accumulated lengths
\* contains target, with the offset target - start, which lies in 0..length; it
\* returns null exactly when target exceeds the total text length or root has no
\* Text node.
C24_TextNodeAtOffset ==
  last.op = "findTextNodeAtOffset" =>
    LET tps == TextPaths(dom, last.root)
        t == last.target
        Start(i) == LengthBefore(dom, tps, i)
        Length(i) == Len(NodeAt(dom, tps[i]).data)
        Holds(i) == Start(i) <= t /\ t <= Start(i) + Length(i)
        total == LengthBefore(dom, tps, Len(tps) + 1)
        res == last.result
    IN /\ ~res.found <=> (t > total \/ tps = <<>>)
       /\ res.found =>
            \E i \in 1..Len(tps) :
              /\ Holds(i) /\ \A j \in 1..(i - 1) : ~Holds(j)
              /\ res.node = tps[i]
              /\ res.offset = t - Start(i)
              /\ res.offset \in 0..Length(i)

\* The target is the boundary between two Text nodes: the first of them is
\* returned, with its length as the offset.
C24_Witness ==
  /\ last.op = "findTextNodeAtOffset" /\ last.result.found
  /\ Len(TextPaths(dom, last.root)) > 1
  /\ last.result.node = TextPaths(dom, last.root)[1]
  /\ last.result.offset = Len(NodeAt(dom, last.result.node).data)
  /\ last.result.offset > 0

\* C26 (as stated). A mousedown/mouseup pair is a click (handleClick) only when
\* the pointer moved less than 5 px between them; with 5 px or more it is a drag,
\* not a click; while the edit panel is shown no handler changes the selection.
C26_ClickVersusDrag ==
  /\ last.op = "mouseUp" /\ last.clicked =>
       Distance2(last.down.x, last.down.y, last.up.x, last.up.y) < 5 * 5
  /\ last.op \in {"mouseDown", "mouseMove", "mouseUp"} /\ last.panel =>
       hunter = last.before

\* C27 (as stated). The ids of the stored hunter-records are pairwise distinct,
\* and deleting a record by id removes exactly one stored record.
C27_RecordIdsUnique ==
  /\ \A i, j \in 1..Len(records.storage) :
       records.storage[i] = records.storage[j] => i = j
  /\ last.op = "delete" => Len(records.storage) = Len(last.before) - 1

\* The text of each marker of d that carries id, in document order.
MarkTexts(d, id) ==
  [k \in 1..Len(MarkPaths(d, id)) |-> TextContent(NodeAt(d, MarkPaths(d, id)[k]))]

\* C28 (as stated). After removeHighlight(id) the markers of every other id are
\* still in the document with the same text, also when highlights overlap or
\* nest; when no element carries id the document is unchanged.
C28_RemoveFrame ==
  last.op = "removeHighlight" =>
    /\ \A other \in (1..NIds) \ {last.id} :
         MarkTexts(dom, other) = MarkTexts(last.before, other)
    /\ ~HasMark(last.before, last.id) => dom = last.before

\* C29 (as stated). While GOGOMode is not mounted the document has no element
\* that carries data-gogo-id, also when a timer set before the unmount fires.
C29_NoHighlightAfterTeardown ==
  "GOGOMode" \notin app.mounted => Len(AllMarkPaths(dom)) = 0

\* C30 (as stated). A record handleAnnotate wrote is in the stored annotations
\* until it is deleted or cleared: no other create, delete or update removes it.
C30_NoLostAnnotation ==
  last.op \in {"annotate", "deleteAnnotation", "panelDelete", "panelUpdate",
               "panelClearAll", "hearAnnotations"} =>
    last.live \subseteq NoteIds(store)

====
